---- MODULE Spec2Model ----
(***************************************************************************)
(* Model of the news ingestion pipeline of backend-2                       *)
(* (src/src/lib/mongoose.ts, class ScrapingService).                       *)
(*                                                                         *)
(* SpecGate  : rateLimit and retryRequest used by the concurrently running *)
(*             source tasks of a batch, over a millisecond clock.          *)
(* SpecRetry : one caller of retryRequest.                                 *)
(* SpecRun   : scrapeAllSources - batches of sources, the recording of     *)
(*             their results in the article store, the run statistics -    *)
(*             run several times in sequence over unchanged feeds.         *)
(* SpecItem  : one call of scrapeArticle - hash lookup, page and Open      *)
(*             Graph fetches, selection of the images.                     *)
(* SpecSource: one call of scrapeSource - the feed URLs read one after the *)
(*             other, with the fallback to the raw fetch, and the items    *)
(*             raced one after the other against their deadline.           *)
(***************************************************************************)
EXTENDS Integers, Sequences, FiniteSets, TLC

VARIABLES
    now,              \* Date.now(), in ms
    lastRequestTime,  \* module-level `let lastRequestTime`
    call,             \* per caller: the activation record of its retryRequest call
    dispatched,       \* times of the last two invocations of requestFn, oldest first
    store,            \* the Article collection: the set of persisted documents
    lastScraped,      \* the Source collection: per source, the lastScraped writes made
    run,              \* the activation record of the scrapeAllSources call in progress
    runNo,            \* number of the run in progress (runs follow one another)
    obs,              \* observations of the runs: injected failures, store at run start
    abandoned,        \* item pipelines that lost the race against their deadline
    pipe,             \* the activation record of one scrapeArticle call
    scrape,           \* the activation record of one scrapeSource call
    sourceDocs,       \* the Source collection: the document of each source
    cls,              \* the activation record of one computeCategoryFromText call
    categories,       \* the Category collection: the set of persisted categories
    script,           \* the activation record of scrape() of scripts/runScraper.ts
    lastScrapeStatus, \* AdminController.lastScrapeStatus
    currentProxyIndex,     \* module-level `let currentProxyIndex`
    currentUserAgentIndex, \* module-level `let currentUserAgentIndex`
    drawn,            \* per ScrapingService instance: the user agents it has drawn
    triggered,        \* per triggerScrape request: the scrapeAllSources call it started
    requests,         \* the calls of ArticleService and enrichArticles in progress
    cache             \* the Redis cache: key -> cached document

fetchVars == <<lastRequestTime, call, dispatched>>

classVars == <<cls, categories, script>>

rotVars == <<currentProxyIndex, currentUserAgentIndex, drawn>>

editVars == <<triggered, requests, cache>>

sideVars == <<classVars, rotVars, lastScrapeStatus, editVars>>

runVars == <<store, lastScraped, sourceDocs, run, runNo, obs, abandoned, pipe, scrape, sideVars>>

vars == <<now, lastRequestTime, call, dispatched, store, lastScraped, sourceDocs, run, runNo,
          obs, abandoned, pipe, scrape, cls, categories, script, lastScrapeStatus,
          currentProxyIndex, currentUserAgentIndex, drawn, triggered, requests, cache>>

----------------------------------------------------------------------------
(* Program constants                                                       *)

RATE_LIMIT_DELAY == 250

maxRetries_four == 3 + 1

\* retryRequest(requestFn, maxRetries = 3, baseDelay = 1000)
maxRetries == 3

baseDelay == 1000

\* Math.random() * 1000: the width of the jitter interval [0, 1000)
JitterSpan == 1000

----------------------------------------------------------------------------
(* Bounds                                                                  *)

\* number of callers (source tasks) that use the fetch client concurrently
NumCallers == 2

\* number of retryRequest calls a caller makes one after the other
MaxRounds == 2

\* Date.now() when the first caller starts
StartTime == 1000

\* time from the dispatch of a request to its settling, in ms
Latency == 100

Callers == 1..NumCallers

\* values of Math.random() * 1000 that are tried: both ends of [0, 1000)
Jitters == {0, JitterSpan - 1}

----------------------------------------------------------------------------
(* Errors a request function can reject with, as retryRequest sees them:   *)
(* error.response?.status (0 when there is no response) and error.code.    *)

NoStatus == 0

ErrorKinds ==
    { [status |-> 500, code |-> "ERR_BAD_RESPONSE"],
      [status |-> 429, code |-> "ERR_BAD_REQUEST"],
      [status |-> 404, code |-> "ERR_BAD_REQUEST"],
      [status |-> NoStatus, code |-> "ECONNRESET"],
      [status |-> NoStatus, code |-> "ETIMEDOUT"],
      [status |-> NoStatus, code |-> "ECONNABORTED"],
      [status |-> NoStatus, code |-> "ERR_INVALID_URL"] }

NoError == [status |-> NoStatus, code |-> "OK"]

\* retryRequest: const isRetryableError = ...
isRetryableError_noTimeout(error) ==
    \/ error.status >= 500
    \/ error.status = 429
    \/ error.code = "ECONNRESET"

isRetryableError(error) ==
    \/ error.status >= 500
    \/ error.status = 429
    \/ error.code = "ECONNRESET"
    \/ error.code = "ETIMEDOUT"

\* retryRequest: const isLastAttempt = attempt === maxRetries - 1
isLastAttempt(attempt) == attempt = maxRetries - 1

\* retryRequest: baseDelay * Math.pow(2, attempt) + Math.random() * 1000
BackoffDelay(attempt, jitter) == baseDelay * (2 ^ attempt) + jitter

----------------------------------------------------------------------------
(* rateLimit, up to its `await`: the caller reads the clock and the last    *)
(* call time; it either passes at once or goes to sleep for the rest of     *)
(* the interval.  Passing records the call time and the request function    *)
(* is invoked.                                                              *)

\* rateLimit: const timeSinceLastRequest = now - lastRequestTime
timeSinceLastRequest(t) == t - lastRequestTime

\* rateLimit: if (timeSinceLastRequest < RATE_LIMIT_DELAY)
MustWait(t) == timeSinceLastRequest(t) < RATE_LIMIT_DELAY

\* The event loop runs pending callbacks (timers, settled requests) in the
\* order of their due times; the clock reads the due time when one runs.
Pending(c) == call[c].pc \in {"gateWait", "inflight", "backoff"}

Due(c) ==
    /\ Pending(c)
    /\ \A d \in DOMAIN call : Pending(d) => call[d].wakeAt >= call[c].wakeAt

LastTwo(seq) == IF Len(seq) > 2 THEN Tail(seq) ELSE seq

\* the caller passes the gate at time t:
\* lastRequestTime = Date.now(); rateLimit returns and requestFn() is invoked
Pass(c, rec, t) ==
    /\ lastRequestTime' = t
    /\ dispatched' = LastTwo(Append(dispatched, t))
    /\ call' = [call EXCEPT ![c] = [rec EXCEPT !.pc = "inflight",
                                               !.calls = @ + 1,
                                               !.wakeAt = t + Latency]]

\* rateLimit() entered at time t, up to its await
EnterRateLimit(c, rec, t) ==
    IF MustWait(t)
    THEN /\ call' = [call EXCEPT ![c] =
                        [rec EXCEPT !.pc = "gateWait",
                                    !.wakeAt = t + (RATE_LIMIT_DELAY - timeSinceLastRequest(t))]]
         /\ UNCHANGED <<lastRequestTime, dispatched>>
    ELSE Pass(c, rec, t)

\* retryRequest: for (let attempt = 0; attempt < maxRetries; attempt++)
LoopContinues(attempt) == attempt < maxRetries

\* round counts the calls of the caller; calls, fails and backoffs count the invocations of requestFn, its
\* rejections and the backoff waits of the call; err is the error last caught
InitCall == [pc |-> "idle", attempt |-> 0, wakeAt |-> 0, err |-> NoError,
             calls |-> 0, fails |-> 0, backoffs |-> 0, round |-> 0]

\* retryRequest is called (a caller calls again once its previous call has
\* returned or thrown): attempt = 0, rateLimit() runs up to its await
StartCall(c) ==
    /\ call[c].pc \in {"idle", "returned", "thrown"}
    /\ call[c].round < MaxRounds
    /\ EnterRateLimit(c, [InitCall EXCEPT !.round = call[c].round + 1], now)
    /\ UNCHANGED now

\* the setTimeout of rateLimit fires: the caller passes the gate
GateWake(c) ==
    /\ call[c].pc = "gateWait"
    /\ Due(c)
    /\ now' = call[c].wakeAt
    /\ Pass(c, call[c], call[c].wakeAt)

\* requestFn resolves: retryRequest returns its value
RequestOk(c) ==
    /\ call[c].pc = "inflight"
    /\ Due(c)
    /\ now' = call[c].wakeAt
    /\ call' = [call EXCEPT ![c].pc = "returned"]
    /\ UNCHANGED <<lastRequestTime, dispatched>>

\* requestFn rejects with error e: the catch block of retryRequest
RequestFail(c) ==
    /\ call[c].pc = "inflight"
    /\ Due(c)
    /\ now' = call[c].wakeAt
    /\ \E e \in ErrorKinds, j \in Jitters :
          /\ IF isLastAttempt(call[c].attempt) \/ ~isRetryableError(e)
             THEN call' = [call EXCEPT ![c].pc = "thrown", ![c].err = e,
                                       ![c].fails = @ + 1]
             ELSE call' = [call EXCEPT ![c].pc = "backoff",
                                       ![c].err = e,
                                       ![c].fails = @ + 1,
                                       ![c].backoffs = @ + 1,
                                       ![c].wakeAt = now' + BackoffDelay(call[c].attempt, j)]
    /\ UNCHANGED <<lastRequestTime, dispatched>>

\* the backoff setTimeout fires: attempt++, loop test, next rateLimit()
BackoffWake(c) ==
    /\ call[c].pc = "backoff"
    /\ Due(c)
    /\ now' = call[c].wakeAt
    /\ LET rec == [call[c] EXCEPT !.attempt = @ + 1]
       IN IF LoopContinues(rec.attempt)
          THEN EnterRateLimit(c, rec, call[c].wakeAt)
          ELSE \* throw new Error('Max retries exceeded')
               /\ call' = [call EXCEPT ![c] =
                              [rec EXCEPT !.pc = "thrown",
                                          !.err = [status |-> NoStatus, code |-> "MAX_RETRIES"]]]
               /\ UNCHANGED <<lastRequestTime, dispatched>>

\* the stores and the run are not touched by the fetch client
\* the categories and the script are not in use
ScriptIdle ==
    /\ categories = {}
    /\ script = <<>>

\* the identity rotation is not in use
RotationIdle ==
    /\ currentProxyIndex = 0
    /\ currentUserAgentIndex = 0
    /\ drawn = <<>>

\* no overlapping run, no call of the article service, an empty cache
EditIdle ==
    /\ triggered = <<>>
    /\ requests = <<>>
    /\ cache = <<>>

\* the classifier, the categories, the script, the admin status and the
\* identity rotation are not in use
SideIdle ==
    /\ cls = <<>>
    /\ ScriptIdle
    /\ RotationIdle
    /\ lastScrapeStatus = <<>>
    /\ EditIdle

\* the stores and the run are not in use
StoresIdle ==
    /\ sourceDocs = <<>>
    /\ store = {}
    /\ lastScraped = <<>>
    /\ run = <<>>
    /\ runNo = 0
    /\ obs = <<>>
    /\ abandoned = {}
    /\ pipe = <<>>
    /\ scrape = <<>>

RunIdle ==
    /\ SideIdle
    /\ StoresIdle

\* SpecGate: the source tasks of one batch use the client concurrently
InitGate ==
    /\ now = StartTime
    /\ lastRequestTime = 0
    /\ call = [c \in Callers |-> InitCall]
    /\ dispatched = <<>>
    /\ RunIdle

NextGate ==
    \E c \in DOMAIN call :
        \/ StartCall(c) /\ UNCHANGED runVars
        \/ GateWake(c) /\ UNCHANGED runVars
        \/ RequestOk(c) /\ UNCHANGED runVars
        \/ RequestFail(c) /\ UNCHANGED runVars
        \/ BackoffWake(c) /\ UNCHANGED runVars

SpecGate == InitGate /\ [][NextGate]_vars

\* SpecRetry: one caller of retryRequest; an earlier request of the process
\* may just have been dispatched
InitRetry ==
    /\ now = StartTime
    /\ lastRequestTime \in {0, StartTime}
    /\ call = [c \in {1} |-> InitCall]
    /\ dispatched = <<>>
    /\ RunIdle

NextRetry ==
    \E c \in DOMAIN call :
        \/ StartCall(c) /\ UNCHANGED runVars
        \/ GateWake(c) /\ UNCHANGED runVars
        \/ RequestOk(c) /\ UNCHANGED runVars
        \/ RequestFail(c) /\ UNCHANGED runVars
        \/ BackoffWake(c) /\ UNCHANGED runVars

SpecRetry == InitRetry /\ [][NextRetry]_vars

----------------------------------------------------------------------------
(* C1 (as claimed): any two consecutive dispatches of requests are at      *)
(* least RATE_LIMIT_DELAY apart, whatever the interleaving of the callers. *)
C1_DispatchesSpaced ==
    \A i \in 1..(Len(dispatched) - 1) :
        dispatched[i + 1] - dispatched[i] >= RATE_LIMIT_DELAY

(* C2: one call of retryRequest invokes the request function at most 3     *)
(* times, and when 3 attempts have failed the call has raised: it has not  *)
(* returned and makes no further attempt.                                  *)
C2_AtMostThreeAttempts ==
    \A c \in DOMAIN call :
        /\ call[c].calls <= 3
        /\ call[c].fails = 3 => call[c].pc = "thrown"

C2_Witness ==
    \E c \in DOMAIN call :
        /\ call[c].calls = 3
        /\ call[c].fails = 3
        /\ call[c].backoffs = 2
        /\ call[c].pc = "thrown"
        /\ call[c].err.status = 500

\* the failure kinds the retry policy names as retryable
RetryableKinds ==
    { [status |-> 500, code |-> "ERR_BAD_RESPONSE"],
      [status |-> 429, code |-> "ERR_BAD_REQUEST"],
      [status |-> NoStatus, code |-> "ECONNRESET"],
      [status |-> NoStatus, code |-> "ETIMEDOUT"] }

----------------------------------------------------------------------------
(* The ingestion run: scrapeAllSources, scrapeSource, scrapeArticle.       *)

SOURCE_BATCH_SIZE == 5

\* number of active sources in the Source collection
NumSources == 6

\* number of runs made one after the other
MaxRuns == 2

\* number of failures (network, deadline, store) injected in one behaviour
MaxFaults == 2

\* number of times the clock may advance between two readings in the slug loop
MaxClockSkew == 1

SourceIds == 1..NumSources

Null == [null |-> TRUE]

Item(t, sm, l) == [title |-> t, summary |-> sm, link |-> l]

\* a source with several feed URLs and an API, scraped on its own
ManyFeeds == NumSources + 3

\* The Source documents.  Sources 1-4 have feeds, source 5 has no feed URL,
\* source 6 is an API source; further sources have one feed of one item.
Source(s) ==
    [ id |-> ToString(s),
      rssUrls |-> CASE s = 3 -> <<"feed3a", "feed3b">>
                    [] s \in {5, 6} -> <<>>
                    [] s = ManyFeeds -> <<"feedA", "feedB", "feedC">>
                    [] s = NumSources + 4 -> <<"feedTe">>
                    [] s = NumSources + 5 -> <<"feedEn", "feed3b">>
                    [] OTHER -> <<"feed" \o ToString(s)>>,
      type |-> IF s \in {6, ManyFeeds} THEN "api" ELSE "rss",
      apiUrl |-> IF s \in {6, ManyFeeds} THEN "api" \o ToString(s) ELSE "" ]

\* the document of a source as the admin surface has stored it
SourceDoc(s) ==
    [ id |-> Source(s).id, rssUrls |-> Source(s).rssUrls, type |-> Source(s).type,
      apiUrl |-> Source(s).apiUrl, active |-> TRUE, lastScraped |-> 0,
      lang |-> CASE s = NumSources + 4 -> "te" [] s = 1 -> "" [] OTHER -> "en",
      categories |-> IF s = NumSources + 5 THEN <<"Technology">> ELSE <<>> ]

\* What the feed URLs serve (unchanged from run to run):
\*   feed1  two items with the same title and summary and different links
\*   feed2  an item that links to the page of the first item of feed1
\*   feed3a an item whose title slugifies like the title of feed1
\*   feed3b an empty feed
\*   feed4  an item with the title of feed1, and an item without a title
\*   feedTe two Telugu items about technology, without snippets
\*   feedEn an English item about startups, and an item without a link
FeedItems(url) ==
    CASE url = "feed1" -> << Item("Big News", "sum1", "L1"), Item("Big News", "sum1", "L2") >>
      [] url = "feed2" -> << Item("Other", "sum2", "L1") >>
      [] url = "feed3a" -> << Item("big news!", "sum3", "L3") >>
      [] url = "feed3b" -> << >>
      [] url = "feed4" -> << Item("Big News", "sum4", "L4"), Item("", "sum5", "L5") >>
      [] url = "feedTe" -> << Item("Tech te 1", "", "L-te1"), Item("Tech te 2", "", "L-te2") >>
      [] url = "feedEn" -> << Item("startup", "", "L-en1"), Item("Quiet morning", "", "") >>
      [] url = "feedB" -> << Item("Story B1", "sum", "L-B1"), Item("Story B2", "sum", "L-B2") >>
      [] OTHER -> << Item("Story " \o url, "sum", "L-" \o url) >>

\* resp.data.articles of the API of a source
ApiItems(s) == << Item("Api Story", "sum6", "L6") >>

\* slugify(title, { lower: true, strict: true }) on the titles served
slugify(title) ==
    CASE title \in {"Big News", "big news!"} -> "big-news"
      [] title = "Other" -> "other"
      [] title = "Api Story" -> "api-story"
      [] title = "untitled" -> "untitled"
      [] OTHER -> "slug-of-" \o title

\* crypto.createHash("sha256").update(content).digest("hex"): a digest that
\* differs for different contents
generateHash(content) == <<"sha256", content>>

\* scrapeArticle: the hash of an item
ItemHash_perRun(item, s) ==
    generateHash(item.title \o item.summary \o Source(s).id \o ToString(runNo))

ItemHash(item, s) == generateHash(item.title \o item.summary \o Source(s).id)

\* What happens to one item: it is processed, or the item deadline fires
\* first, or the hash lookup in the store fails
ItemEvents == {"ok", "timeout", "lookupError"}

\* scrapeArticle raced against the item deadline: the scraped article, or
\* Null when the item is skipped
scrapeArticle_noDeadline(item, s, st, ev) ==
    IF item.title = "" \/ item.link = "" THEN Null
    ELSE IF ev = "lookupError" THEN Null
    ELSE IF \E a \in st : a.hash = ItemHash(item, s) THEN Null
    ELSE [ title |-> item.title,
           summary |-> item.summary,
           sourceUrl |-> item.link,
           hash |-> ItemHash(item, s) ]

scrapeArticle(item, s, st, ev) ==
    IF item.title = "" \/ item.link = "" THEN Null
    ELSE IF ev = "lookupError" THEN Null
    ELSE IF \E a \in st : a.hash = ItemHash(item, s) THEN Null
    ELSE IF ev = "timeout" THEN Null
    ELSE [ title |-> item.title,
           summary |-> item.summary,
           sourceUrl |-> item.link,
           hash |-> ItemHash(item, s) ]

NotNull(x) == x # Null

\* the articles scraped from the items of one feed or API response, in order
ScrapeItems(items, s, st, evs) ==
    SelectSeq([n \in 1..Len(items) |-> scrapeArticle(items[n], s, st, evs[n])], NotNull)

RECURSIVE ConcatAll(_)
ConcatAll(seqs) ==
    IF seqs = <<>> THEN <<>> ELSE Head(seqs) \o ConcatAll(Tail(seqs))

RECURSIVE SumSeq(_)
SumSeq(seq) ==
    IF seq = <<>> THEN 0 ELSE Head(seq) + SumSeq(Tail(seq))

FeedsOf(s) == [f \in 1..Len(Source(s).rssUrls) |-> FeedItems(Source(s).rssUrls[f])]

HasApi(s) == Source(s).type = "api" /\ Source(s).apiUrl # ""

Valid(item) == item.title # "" /\ item.link # ""

\* The places where the scraping of source s can fail in a run: the read
\* of feed f, the API call (f = 0), and item n of feed f or of the API
\* response, which can meet its deadline or a failing hash lookup.
Point(kind, f, n, ev) == [kind |-> kind, f |-> f, n |-> n, ev |-> ev]

FaultPoints(s) ==
    {Point("feed", f, 0, "fail") : f \in 1..Len(FeedsOf(s))}
    \cup UNION { {Point("item", f, n, ev) :
                     n \in {x \in 1..Len(FeedsOf(s)[f]) : Valid(FeedsOf(s)[f][x])},
                     ev \in ItemEvents \ {"ok"}} :
                  f \in 1..Len(FeedsOf(s)) }
    \cup (IF HasApi(s)
          THEN {Point("api", 0, 0, "fail")}
               \cup {Point("item", 0, n, ev) :
                        n \in {x \in 1..Len(ApiItems(s)) : Valid(ApiItems(s)[x])},
                        ev \in ItemEvents \ {"ok"}}
          ELSE {})

\* A plan is the set of the places where a run of scrapeSource does fail.
\* An item of a feed that could not be read meets no failure of its own,
\* and an item meets at most one.
FeedOk(plan, f) ==
    IF f = 0 THEN Point("api", 0, 0, "fail") \notin plan
             ELSE Point("feed", f, 0, "fail") \notin plan

ItemEvent(plan, f, n) ==
    IF Point("item", f, n, "timeout") \in plan THEN "timeout"
    ELSE IF Point("item", f, n, "lookupError") \in plan THEN "lookupError"
    ELSE "ok"

\* the sets of at most `budget` of the points
RECURSIVE UpTo(_, _)
UpTo(points, budget) ==
    IF budget = 0 THEN {{}}
    ELSE LET smaller == UpTo(points, budget - 1)
         IN smaller \cup {plan \cup {p} : plan \in smaller, p \in points}

Plans(s, budget) ==
    {plan \in UpTo(FaultPoints(s), budget) :
        \A p \in plan : p.kind = "item" =>
              /\ FeedOk(plan, p.f)
              /\ \A q \in plan : (q.kind = "item" /\ q.f = p.f /\ q.n = p.n) => q = p}

\* scrapeSource: the value it resolves with, { articles, meta }
scrapeSource(s, st, plan) ==
    LET feeds == FeedsOf(s)
        nF == Len(feeds)
        perFeed == [f \in 1..nF |->
                      IF FeedOk(plan, f)
                      THEN ScrapeItems(feeds[f], s, st,
                                       [n \in 1..Len(feeds[f]) |-> ItemEvent(plan, f, n)])
                      ELSE <<>>]
        seen == [f \in 1..nF |-> IF FeedOk(plan, f) THEN Len(feeds[f]) ELSE 0]
        rssFetched == Cardinality({f \in 1..nF : FeedOk(plan, f)})
        apiArticles == IF HasApi(s) /\ FeedOk(plan, 0)
                       THEN ScrapeItems(ApiItems(s), s, st,
                                        [n \in 1..Len(ApiItems(s)) |-> ItemEvent(plan, 0, n)])
                       ELSE <<>>
    IN [ articles |-> ConcatAll(perFeed) \o apiArticles,
         meta |-> [ rssUrls |-> nF,
                    rssFetched |-> rssFetched,
                    rssFailed |-> nF - rssFetched,
                    itemsSeen |-> SumSeq(seen) ] ]

----------------------------------------------------------------------------
(* The article store.  The Article model is not part of the sources at     *)
(* hand; its insert is modelled after the data model of the design:        *)
(* content hash, canonical URL and slug are unique, and an insert that     *)
(* conflicts is refused with a duplicate-key error.                        *)

DuplicateKey_noHash(st, doc) ==
    \E a \in st : a.canonicalUrl = doc.canonicalUrl \/ a.slug = doc.slug

DuplicateKey_slugOnly(st, doc) == \E a \in st : a.slug = doc.slug

DuplicateKey(st, doc) ==
    \E a \in st :
        \/ a.hash = doc.hash
        \/ a.canonicalUrl = doc.canonicalUrl
        \/ a.slug = doc.slug

----------------------------------------------------------------------------
(* scrapeAllSources.  One action per resumption of the async function: an  *)
(* action runs the code from one await to the next.                        *)

IdleRun ==
    [ pc |-> "idle", sources |-> <<>>, i |-> 0, task |-> <<>>,
      k |-> 0, j |-> 0, baseSlug |-> "", slug |-> "", slugSuffix |-> 0,
      insertedCount |-> 0, allArticles |-> <<>>,
      successCount |-> 0, failCount |-> 0, perSource |-> <<>>,
      outcome |-> Null ]

Min(a, b) == IF a <= b THEN a ELSE b

\* sources.slice(i, i + SOURCE_BATCH_SIZE)
Batch_short(srcs, i) == SubSeq(srcs, i + 1, Min(i + SOURCE_BATCH_SIZE - 1, Len(srcs)))

Batch_wide(srcs, i) == SubSeq(srcs, i + 1, Min(i + SOURCE_BATCH_SIZE + 1, Len(srcs)))

Batch(srcs, i) == SubSeq(srcs, i + 1, Min(i + SOURCE_BATCH_SIZE, Len(srcs)))

SeqToSet(seq) == {seq[n] : n \in 1..Len(seq)}

\* the stats object built when all batches are done
Stats(r) ==
    [ sources |-> Len(r.sources),
      success |-> r.successCount,
      failed |-> r.failCount,
      total |-> [ itemsSeen |-> SumSeq([n \in 1..Len(r.perSource) |-> r.perSource[n].itemsSeen]),
                  scrapedOk |-> SumSeq([n \in 1..Len(r.perSource) |-> r.perSource[n].scrapedOk]),
                  inserted |-> SumSeq([n \in 1..Len(r.perSource) |-> r.perSource[n].inserted]) ],
      perSource |-> r.perSource,
      error |-> "" ]

\* return { articles: allArticles, stats }
Return(r) ==
    [r EXCEPT !.pc = "done",
              !.outcome = [ settled |-> "resolved",
                            value |-> [articles |-> r.allArticles, stats |-> Stats(r)] ]]

\* the catch of scrapeAllSources: return { articles: [], stats: { error } }
OuterCatch_rethrow(r, message) ==
    [r EXCEPT !.pc = "done",
              !.outcome = [ settled |-> "rejected", value |-> [error |-> message] ]]

OuterCatch(r, message) ==
    [r EXCEPT !.pc = "done",
              !.outcome = [ settled |-> "resolved",
                            value |-> [articles |-> <<>>, stats |-> [error |-> message]] ]]

\* the for loop over the batches: start the tasks of the batch at i, or
\* build the stats and return when no source is left
BeginBatch(r) ==
    IF r.i < Len(r.sources)
    THEN [r EXCEPT !.pc = "scraping",
                   !.task = [s \in SeqToSet(Batch(r.sources, r.i)) |-> [status |-> "running"]]]
    ELSE Return(r)

BatchResults(r) == [n \in 1..Len(Batch(r.sources, r.i)) |-> r.task[Batch(r.sources, r.i)[n]]]

CurrentSource(r) == Batch(r.sources, r.i)[r.k]

CurrentResult(r) == r.task[CurrentSource(r)]

\* the article loop of a fulfilled result, from article j on: stop at the
\* next await, which is the URL lookup of article j or, after the last
\* article, the lastScraped update of the source
BeginArticle(r, j) ==
    IF j <= Len(CurrentResult(r).value.articles)
    THEN [r EXCEPT !.pc = "checkUrl", !.j = j]
    ELSE [r EXCEPT !.pc = "update",
                   !.j = j,
                   !.allArticles = @ \o CurrentResult(r).value.articles,
                   !.successCount = @ + 1]

\* perSource.push of the fulfilled branch
FulfilledEntry(r) ==
    LET s == CurrentSource(r)
        v == CurrentResult(r).value
    IN [ sourceId |-> Source(s).id,
         rssUrls |-> Len(Source(s).rssUrls),
         rssFetched |-> v.meta.rssFetched,
         rssFailed |-> v.meta.rssFailed,
         itemsSeen |-> v.meta.itemsSeen,
         scrapedOk |-> Len(v.articles),
         inserted |-> r.insertedCount,
         error |-> "" ]

\* perSource.push of the rejected branch
RejectedEntry(r) ==
    LET s == CurrentSource(r)
    IN [ sourceId |-> Source(s).id,
         rssUrls |-> Len(Source(s).rssUrls),
         rssFetched |-> 0,
         rssFailed |-> Len(Source(s).rssUrls),
         itemsSeen |-> 0,
         scrapedOk |-> 0,
         inserted |-> 0,
         error |-> CurrentResult(r).reason ]

\* the loop over the results of the batch, from result k on
RECURSIVE BeginResult(_, _)
BeginResult(r, k) ==
    IF k > Len(Batch(r.sources, r.i))
    THEN BeginBatch([r EXCEPT !.i = @ + SOURCE_BATCH_SIZE, !.k = 0, !.j = 0, !.task = <<>>])
    ELSE LET rk == [r EXCEPT !.k = k, !.insertedCount = 0]
         IN IF CurrentResult(rk).status = "fulfilled"
            THEN BeginArticle(rk, 1)
            ELSE BeginResult([rk EXCEPT !.failCount = @ + 1,
                                        !.perSource = Append(@, RejectedEntry(rk))],
                             k + 1)

\* an injected failure is counted and logged
CanFail(n) == obs.faults + n <= MaxFaults

Fault(kind, s) == [kind |-> kind, src |-> s, run |-> runNo]

Logged(o, faultSet, n) == [o EXCEPT !.faults = @ + n, !.log = @ \cup faultSet]

\* scrapeAllSources is called (a run follows the previous one):
\* up to `await Source.find({ active: true })`
CallScrapeAllSources ==
    /\ run.pc \in {"idle", "done"}
    /\ runNo < MaxRuns
    /\ runNo' = runNo + 1
    /\ run' = [IdleRun EXCEPT !.pc = "find"]
    /\ obs' = [obs EXCEPT !.storeAtStart = store, !.created = 0]
    /\ UNCHANGED <<store, lastScraped, sourceDocs, now, fetchVars, abandoned, pipe, scrape>>

StartRun == CallScrapeAllSources /\ UNCHANGED sideVars

\* Source.find settles: the sources are listed and the first batch is
\* started, or the listing fails and the catch returns
FindSources ==
    /\ run.pc = "find"
    /\ \E ok \in BOOLEAN :
          IF ok
          THEN /\ run' = BeginBatch([run EXCEPT !.sources = [n \in 1..NumSources |-> n], !.i = 0])
               /\ obs' = obs
          ELSE /\ CanFail(1)
               /\ run' = OuterCatch(run, "find failed")
               /\ obs' = Logged(obs, {Fault("find", 0)}, 1)
    /\ UNCHANGED <<store, lastScraped, sourceDocs, runNo, now, fetchVars, sideVars, abandoned, pipe, scrape>>

\* the pipeline of an item that lost the race and goes on running
Pipeline(s, item) ==
    [src |-> s, link |-> item.link, hash |-> ItemHash(item, s), run |-> runNo]

\* an abandoned pipeline runs to its end: lookups and fetches, and a value
\* that nobody receives
AbandonedSettles(a) ==
    /\ a \in abandoned
    /\ abandoned' = abandoned \ {a}
    /\ UNCHANGED <<now, fetchVars, sideVars, store, lastScraped, sourceDocs, run, runNo, obs, pipe, scrape>>

\* the pipelines abandoned in a call of scrapeSource
TimedOut(s, plan) ==
    {Pipeline(s, IF p.f = 0 THEN ApiItems(s)[p.n] ELSE FeedsOf(s)[p.f][p.n]) :
        p \in {q \in plan : q.kind = "item" /\ q.ev = "timeout"}}

\* the failures of a plan, for the log
PlanFaultSet(s, plan) == {Fault(p.kind, s) : p \in plan}

\* the task of source s settles: scrapeSource has read the feeds of the
\* source and scraped their items (it handles every failure itself, so the
\* task is fulfilled)
SettleSource(s) ==
    /\ run.pc = "scraping"
    /\ s \in DOMAIN run.task
    /\ run.task[s].status = "running"
    /\ \E plan \in Plans(s, MaxFaults - obs.faults) :
          /\ run' = [run EXCEPT !.task[s] =
                        [status |-> "fulfilled", value |-> scrapeSource(s, store, plan)]]
          /\ obs' = Logged(obs, PlanFaultSet(s, plan), Cardinality(plan))
          /\ abandoned' = abandoned \cup TimedOut(s, plan)
    /\ UNCHANGED <<store, lastScraped, sourceDocs, runNo, now, fetchVars, sideVars, pipe, scrape>>

\* Promise.allSettled resolves: the results are processed in batch order
BatchSettled ==
    /\ run.pc = "scraping"
    /\ \A s \in DOMAIN run.task : run.task[s].status # "running"
    /\ run' = BeginResult(run, 1)
    /\ UNCHANGED <<store, lastScraped, sourceDocs, runNo, obs, now, fetchVars, sideVars, abandoned, pipe, scrape>>

CurrentArticle == CurrentResult(run).value.articles[run.j]

\* Article.findOne({ canonicalUrl }) settles
existingByUrl_none(st, url) == FALSE

existingByUrl(st, url) == \E a \in st : a.canonicalUrl = url

CheckUrl ==
    /\ run.pc = "checkUrl"
    /\ \E ok \in BOOLEAN :
          IF ok
          THEN /\ obs' = obs
               /\ IF existingByUrl(store, CurrentArticle.sourceUrl)
                  THEN run' = BeginArticle(run, run.j + 1)
                  ELSE run' = [run EXCEPT !.pc = "slug",
                                          !.baseSlug = slugify(CurrentArticle.title),
                                          !.slug = slugify(CurrentArticle.title),
                                          !.slugSuffix = 1]
          ELSE /\ CanFail(1)
               /\ obs' = Logged(obs, {Fault("store", CurrentSource(run))}, 1)
               /\ run' = BeginArticle(run, run.j + 1)
    /\ UNCHANGED <<store, lastScraped, sourceDocs, runNo, now, fetchVars, sideVars, abandoned, pipe, scrape>>

\* `${baseSlug}-${Date.now()}-${slugSuffix}`
SlugCandidate_noSuffix(base, t, suffix) == base \o "-" \o ToString(t)

SlugCandidate(base, t, suffix) == base \o "-" \o ToString(t) \o "-" \o ToString(suffix)

\* slugCollision: what Article.findOne({ slug }) finds
slugCollision_none(st, slug) == FALSE

slugCollision(st, slug) == \E a \in st : a.slug = slug

\* Article.findOne({ slug }) settles: one turn of the slug collision loop
SlugProbe ==
    /\ run.pc = "slug"
    /\ \E ok \in BOOLEAN :
          IF ok
          THEN /\ obs' = obs
               /\ IF slugCollision(store, run.slug)
                  THEN \E t \in now..(now + MaxClockSkew) :
                          /\ now' = t
                          /\ run' = [run EXCEPT !.slug = SlugCandidate(run.baseSlug, t, run.slugSuffix),
                                                !.slugSuffix = @ + 1]
                  ELSE /\ run' = [run EXCEPT !.pc = "create"]
                       /\ now' = now
          ELSE /\ CanFail(1)
               /\ obs' = Logged(obs, {Fault("store", CurrentSource(run))}, 1)
               /\ run' = BeginArticle(run, run.j + 1)
               /\ now' = now
    /\ UNCHANGED <<store, lastScraped, sourceDocs, runNo, fetchVars, sideVars, abandoned, pipe, scrape>>

\* the document passed to Article.create
NewArticle ==
    [ title |-> CurrentArticle.title,
      slug |-> run.slug,
      canonicalUrl |-> CurrentArticle.sourceUrl,
      hash |-> CurrentArticle.hash,
      status |-> "scraped" ]

\* Article.create settles: the document is inserted and counted, or the
\* insert is refused (duplicate key) or fails and the catch skips the item
CreateArticle ==
    /\ run.pc = "create"
    /\ \E ok \in BOOLEAN :
          IF ok
          THEN IF DuplicateKey(store, NewArticle)
               THEN /\ store' = store
                    /\ run' = BeginArticle(run, run.j + 1)
                    /\ obs' = [obs EXCEPT !.dupUrlCreate =
                                  @ \/ \E a \in store : a.canonicalUrl = NewArticle.canonicalUrl]
               ELSE /\ store' = store \cup {NewArticle}
                    /\ run' = BeginArticle([run EXCEPT !.insertedCount = @ + 1], run.j + 1)
                    /\ obs' = [obs EXCEPT !.created = @ + 1]
          ELSE /\ CanFail(1)
               /\ store' = store
               /\ run' = BeginArticle(run, run.j + 1)
               /\ obs' = Logged(obs, {Fault("store", CurrentSource(run))}, 1)
    /\ UNCHANGED <<lastScraped, sourceDocs, runNo, now, fetchVars, sideVars, abandoned, pipe, scrape>>

\* Source.findByIdAndUpdate(source._id, { lastScraped }) settles: the
\* entry of the source is pushed and the next result is taken up; a
\* failure of the update is caught by the catch of scrapeAllSources
findByIdAndUpdate_replace(docs, id, update) == [docs EXCEPT ![id] = update]

\* Source.findByIdAndUpdate(id, update): the fields of the update are set
\* in the document, its other fields are kept
findByIdAndUpdate(docs, id, update) ==
    [docs EXCEPT ![id] = [f \in DOMAIN docs[id] |->
                             IF f \in DOMAIN update THEN update[f] ELSE docs[id][f]]]

UpdateSource ==
    /\ run.pc = "update"
    /\ \E ok \in BOOLEAN :
          IF ok
          THEN /\ lastScraped' = [lastScraped EXCEPT ![CurrentSource(run)] = @ + 1]
               /\ sourceDocs' = findByIdAndUpdate(sourceDocs, CurrentSource(run),
                                                  [lastScraped |-> now])
               /\ run' = BeginResult([run EXCEPT !.perSource = Append(@, FulfilledEntry(run))],
                                     run.k + 1)
               /\ obs' = obs
          ELSE /\ CanFail(1)
               /\ lastScraped' = lastScraped
               /\ sourceDocs' = sourceDocs
               /\ run' = OuterCatch(run, "update failed")
               /\ obs' = Logged(obs, {Fault("update", CurrentSource(run))}, 1)
    /\ UNCHANGED <<store, runNo, now, fetchVars, sideVars, abandoned, pipe, scrape>>

InitRun ==
    /\ now = StartTime
    /\ lastRequestTime = 0
    /\ call = <<>>
    /\ dispatched = <<>>
    /\ store = {}
    /\ lastScraped = [s \in SourceIds |-> 0]
    /\ sourceDocs = [s \in SourceIds |-> SourceDoc(s)]
    /\ SideIdle
    /\ run = IdleRun
    /\ runNo = 0
    /\ obs = [faults |-> 0, log |-> {}, storeAtStart |-> {}, created |-> 0,
              dupUrlCreate |-> FALSE]
    /\ abandoned = {}
    /\ pipe = <<>>
    /\ scrape = <<>>

NextRun ==
    \/ StartRun
    \/ FindSources
    \/ \E s \in SourceIds : SettleSource(s)
    \/ BatchSettled
    \/ CheckUrl
    \/ SlugProbe
    \/ CreateArticle
    \/ UpdateSource
    \/ \E a \in abandoned : AbandonedSettles(a)

SpecRun == InitRun /\ [][NextRun]_vars

----------------------------------------------------------------------------
(* Claims about the run                                                    *)

RunDone == run.pc = "done"

\* the run returned its statistics (it was not cut short by the catch)
HasStats == RunDone /\ "perSource" \in DOMAIN run.outcome.value.stats

EntriesOf(s) ==
    {n \in 1..Len(run.outcome.value.stats.perSource) :
        run.outcome.value.stats.perSource[n].sourceId = Source(s).id}

FaultsOfRun(n) == {e \in obs.log : e.run = n}

Persisted(a) == \E d \in store : d.canonicalUrl = a.sourceUrl \/ d.hash = a.hash

(* C4: when the first batch has 5 sources and the only failure of the run  *)
(* is a feed of one of them that cannot be read, each of the other 4       *)
(* sources has exactly one entry in perSource, the entry counts all the    *)
(* articles of the source as scraped, and each of them is persisted (or    *)
(* the store holds the article it duplicates).                             *)
C4_SiblingsComplete ==
    \A f \in 1..SOURCE_BATCH_SIZE :
        (RunDone /\ runNo = 1 /\ obs.faults = 1 /\ obs.log = {[kind |-> "feed", src |-> f, run |-> 1]})
        => /\ HasStats
           /\ \A s \in (1..SOURCE_BATCH_SIZE) \ {f} :
                 /\ Cardinality(EntriesOf(s)) = 1
                 /\ \A n \in EntriesOf(s) :
                       LET e == run.outcome.value.stats.perSource[n]
                           arts == scrapeSource(s, {}, {}).articles
                       IN /\ e.error = ""
                          /\ e.scrapedOk = Len(arts)
                          /\ \A m \in 1..Len(arts) : Persisted(arts[m])

C4_Witness ==
    /\ RunDone
    /\ runNo = 1
    /\ obs.log = {[kind |-> "feed", src |-> 3, run |-> 1]}
    /\ obs.faults = 1
    /\ HasStats
    /\ Len(run.outcome.value.stats.perSource) >= SOURCE_BATCH_SIZE
    /\ \E d \in store : d.canonicalUrl = "L4"

(* C5 (as claimed): whatever fails in a run, short of the listing of the   *)
(* sources, the run is not aborted: it returns statistics with one entry   *)
(* per source.                                                             *)
C5_RunNotAborted ==
    (RunDone /\ ~\E e \in FaultsOfRun(runNo) : e.kind = "find")
    => /\ HasStats
       /\ Len(run.outcome.value.stats.perSource) = NumSources

(* C6 (as claimed): a source all of whose feeds failed to be read, or      *)
(* whose API call failed, is counted in `failed` and its perSource entry   *)
(* has an error.                                                           *)
C6_FailedSourceReported ==
    HasStats =>
        \A n \in 1..Len(run.outcome.value.stats.perSource) :
            LET e == run.outcome.value.stats.perSource[n]
                allFeedsFailed == e.rssUrls > 0 /\ e.rssFailed = e.rssUrls
                apiFailed == \E x \in FaultsOfRun(runNo) :
                                x.kind = "api" /\ Source(x.src).id = e.sourceId
            IN (allFeedsFailed \/ apiFailed)
               => e.error # "" /\ run.outcome.value.stats.failed >= 1

(* C7: scrapeAllSources never rejects: whenever the call has settled, it   *)
(* has resolved with an object that carries `articles` and `stats`.        *)
C7_RunAlwaysResolves ==
    /\ run.outcome # Null =>
          /\ run.outcome.settled = "resolved"
          /\ DOMAIN run.outcome.value = {"articles", "stats"}
    /\ RunDone => run.outcome # Null

C7_Witness ==
    /\ RunDone
    /\ run.outcome.settled = "resolved"
    /\ "perSource" \notin DOMAIN run.outcome.value.stats
    /\ run.outcome.value.stats.error = "update failed"
    /\ \E e \in FaultsOfRun(runNo) : e.kind = "item"

C10_UrlUniqueAndSkipped ==
    /\ \A a \in store : \A b \in store : a.canonicalUrl = b.canonicalUrl => a = b
    /\ ~obs.dupUrlCreate

C10_Witness ==
    /\ RunDone
    /\ HasStats
    /\ obs.faults = 0
    /\ \E m, n \in 1..Len(run.outcome.value.articles) :
          /\ run.outcome.value.articles[m].hash # run.outcome.value.articles[n].hash
          /\ run.outcome.value.articles[m].sourceUrl = "L1"
          /\ run.outcome.value.articles[n].sourceUrl = "L1"
    /\ Cardinality({d \in store : d.canonicalUrl = "L1"}) = 1

(* C11: the persisted slugs are pairwise distinct; an insert is attempted   *)
(* only with a slug that no persisted article carries; and when nothing    *)
(* fails, the items of sources 1, 3 and 4, whose titles slugify to the     *)
(* same base, are all persisted: the first under the base slug, the others *)
(* under the base slug extended by a timestamp and a counter.              *)
SlugSuffixes ==
    {SlugCandidate("big-news", t, n) :
        t \in StartTime..(StartTime + 4 * MaxRuns * MaxClockSkew), n \in 1..3}

C11_SlugsDistinct ==
    /\ \A a \in store : \A b \in store : a.slug = b.slug => a = b
    /\ run.pc = "create" => ~\E a \in store : a.slug = run.slug
    /\ (HasStats /\ obs.faults = 0)
       => \E a, b, c \in store :
             /\ a.canonicalUrl = "L1" /\ a.slug = "big-news"
             /\ b.canonicalUrl = "L3" /\ b.slug \in SlugSuffixes
             /\ c.canonicalUrl = "L4" /\ c.slug \in SlugSuffixes
             /\ b.slug # c.slug

C11_Witness ==
    /\ HasStats
    /\ obs.faults = 0
    /\ \E b, c \in store :
          /\ b.canonicalUrl = "L3" /\ b.slug = SlugCandidate("big-news", StartTime, 1)
          /\ c.canonicalUrl = "L4" /\ c.slug = SlugCandidate("big-news", StartTime, 2)

----------------------------------------------------------------------------
(* Strings.  The string methods used on URLs, alt texts and summaries      *)
(* (includes, toLowerCase, startsWith, substring) work on the characters   *)
(* of a string.                                                            *)

\* summary.substring(0, 1000): the length kept of the snippet in fast mode
SnippetLimit == 1000

\* the characters of the strings that occur
Chars(s) ==
    CASE s = "" -> <<>>
      [] s = "logo" -> <<"l", "o", "g", "o">>
      [] s = "icon" -> <<"i", "c", "o", "n">>
      [] s = "avatar" -> <<"a", "v", "a", "t", "a", "r">>
      [] s = "badge" -> <<"b", "a", "d", "g", "e">>
      [] s = "button" -> <<"b", "u", "t", "t", "o", "n">>
      [] s = "banner" -> <<"b", "a", "n", "n", "e", "r">>
      [] s = "ad" -> <<"a", "d">>
      [] s = "advertisement" -> <<"a", "d", "v", "e", "r", "t", "i", "s", "e", "m", "e", "n", "t">>
      [] s = "sprite" -> <<"s", "p", "r", "i", "t", "e">>
      [] s = "pixel" -> <<"p", "i", "x", "e", "l">>
      [] s = "tracking" -> <<"t", "r", "a", "c", "k", "i", "n", "g">>
      [] s = "1x1" -> <<"1", "x", "1">>
      [] s = "blank.gif" -> <<"b", "l", "a", "n", "k", ".", "g", "i", "f">>
      [] s = "spacer.gif" -> <<"s", "p", "a", "c", "e", "r", ".", "g", "i", "f">>
      [] s = "placeholder" -> <<"p", "l", "a", "c", "e", "h", "o", "l", "d", "e", "r">>
      [] s = "default" -> <<"d", "e", "f", "a", "u", "l", "t">>
      [] s = "spacer" -> <<"s", "p", "a", "c", "e", "r">>
      [] s = "google" -> <<"g", "o", "o", "g", "l", "e">>
      [] s = "preferred" -> <<"p", "r", "e", "f", "e", "r", "r", "e", "d">>
      [] s = "http" -> <<"h", "t", "t", "p">>
      [] s = "tracking-pixel" -> <<"t", "r", "a", "c", "k", "i", "n", "g", "-", "p", "i", "x", "e", "l">>
      [] s = "Big News" -> <<"B", "i", "g", " ", "N", "e", "w", "s">>
      [] s = "Article image" -> <<"A", "r", "t", "i", "c", "l", "e", " ", "i", "m", "a", "g", "e">>
      [] s = "pic" -> <<"p", "i", "c">>
      [] s = "sum1" -> <<"s", "u", "m", "1">>
      [] s = "http://x/p.jpg" -> <<"h", "t", "t", "p", ":", "/", "/", "x", "/", "p", ".", "j", "p", "g">>
      [] s = "http://x/q.jpg" -> <<"h", "t", "t", "p", ":", "/", "/", "x", "/", "q", ".", "j", "p", "g">>
      [] s = "http://x/r.jpg" -> <<"h", "t", "t", "p", ":", "/", "/", "x", "/", "r", ".", "j", "p", "g">>
      [] s = "http://x/s.jpg" -> <<"h", "t", "t", "p", ":", "/", "/", "x", "/", "s", ".", "j", "p", "g">>
      [] s = "http://x/t.jpg" -> <<"h", "t", "t", "p", ":", "/", "/", "x", "/", "t", ".", "j", "p", "g">>
      [] s = "http://x/u.jpg" -> <<"h", "t", "t", "p", ":", "/", "/", "x", "/", "u", ".", "j", "p", "g">>
      [] s = "http://x/default.jpg" -> <<"h", "t", "t", "p", ":", "/", "/", "x", "/", "d", "e", "f", "a", "u", "l", "t", ".", "j", "p", "g">>
      [] s = "http://x/LOGO.png" -> <<"h", "t", "t", "p", ":", "/", "/", "x", "/", "L", "O", "G", "O", ".", "p", "n", "g">>
      [] s = "http://x/icon.png" -> <<"h", "t", "t", "p", ":", "/", "/", "x", "/", "i", "c", "o", "n", ".", "p", "n", "g">>
      [] s = "http://x/tracking-pixel.gif" -> <<"h", "t", "t", "p", ":", "/", "/", "x", "/", "t", "r", "a", "c", "k", "i", "n", "g", "-", "p", "i", "x", "e", "l", ".", "g", "i", "f">>
      [] s = "/p.jpg" -> <<"/", "p", ".", "j", "p", "g">>
      [] s = "http://n/p.jpg" -> <<"h", "t", "t", "p", ":", "/", "/", "n", "/", "p", ".", "j", "p", "g">>
      [] s = "http://n/a" -> <<"h", "t", "t", "p", ":", "/", "/", "n", "/", "a">>
      [] s = "Page text" -> <<"P", "a", "g", "e", " ", "t", "e", "x", "t">>
      [] s = "te" -> <<"t", "e">>
      [] s = "TE" -> <<"T", "E">>
      [] s = "ta" -> <<"t", "a">>
      [] s = "hi" -> <<"h", "i">>
      [] s = "bn" -> <<"b", "n">>
      [] s = "gu" -> <<"g", "u">>
      [] s = "mr" -> <<"m", "r">>
      [] s = "en" -> <<"e", "n">>
      [] s = "kn" -> <<"k", "n">>
      [] s = "telugu" -> <<"t", "e", "l", "u", "g", "u">>
      [] s = "tamil" -> <<"t", "a", "m", "i", "l">>
      [] s = "hindi" -> <<"h", "i", "n", "d", "i">>
      [] s = "bengali" -> <<"b", "e", "n", "g", "a", "l", "i">>
      [] s = "gujarati" -> <<"g", "u", "j", "a", "r", "a", "t", "i">>
      [] s = "marathi" -> <<"m", "a", "r", "a", "t", "h", "i">>
      [] s = "english" -> <<"e", "n", "g", "l", "i", "s", "h">>
      [] s = "Cricket match: India wins!" -> <<"C", "r", "i", "c", "k", "e", "t", " ", "m", "a", "t", "c", "h", ":", " ", "I", "n", "d", "i", "a", " ", "w", "i", "n", "s", "!">>
      [] s = "startup" -> <<"s", "t", "a", "r", "t", "u", "p">>
      [] s = "Nice weather today" -> <<"N", "i", "c", "e", " ", "w", "e", "a", "t", "h", "e", "r", " ", "t", "o", "d", "a", "y">>
      [] s = "Quiet morning" -> <<"Q", "u", "i", "e", "t", " ", "m", "o", "r", "n", "i", "n", "g">>
      [] s = "AI robot" -> <<"A", "I", " ", "r", "o", "b", "o", "t">>
      [] s = "election" -> <<"e", "l", "e", "c", "t", "i", "o", "n">>
      [] s = "uncategorized" -> <<"u", "n", "c", "a", "t", "e", "g", "o", "r", "i", "z", "e", "d">>
      [] s = "Uncategorized" -> <<"U", "n", "c", "a", "t", "e", "g", "o", "r", "i", "z", "e", "d">>
      [] s = "technology" -> <<"t", "e", "c", "h", "n", "o", "l", "o", "g", "y">>
      [] s = "Technology" -> <<"T", "e", "c", "h", "n", "o", "l", "o", "g", "y">>
      [] s = "health" -> <<"h", "e", "a", "l", "t", "h">>
      [] s = "Health" -> <<"H", "e", "a", "l", "t", "h">>
      [] s = "business" -> <<"b", "u", "s", "i", "n", "e", "s", "s">>
      [] s = "Business" -> <<"B", "u", "s", "i", "n", "e", "s", "s">>
      [] s = "sports" -> <<"s", "p", "o", "r", "t", "s">>
      [] s = "Sports" -> <<"S", "p", "o", "r", "t", "s">>
      [] s = "Untitled" -> <<"U", "n", "t", "i", "t", "l", "e", "d">>
      [] s = "No summary" -> <<"N", "o", " ", "s", "u", "m", "m", "a", "r", "y">>
      [] s = "No content available" -> <<"N", "o", " ", "c", "o", "n", "t", "e", "n", "t", " ", "a", "v", "a", "i", "l", "a", "b", "l", "e">>
      [] s = "Other" -> <<"O", "t", "h", "e", "r">>
      [] s = "big news!" -> <<"b", "i", "g", " ", "n", "e", "w", "s", "!">>
      [] s = "sum2" -> <<"s", "u", "m", "2">>
      [] s = "sum3" -> <<"s", "u", "m", "3">>
      [] s = "sum4" -> <<"s", "u", "m", "4">>
      [] s = "sum5" -> <<"s", "u", "m", "5">>
      [] s = "sum" -> <<"s", "u", "m">>
      [] s = "Story feed7" -> <<"S", "t", "o", "r", "y", " ", "f", "e", "e", "d", "7">>
      [] s = "LongSummary" -> [i \in 1..(SnippetLimit + 1) |-> "x"]

UpperCase == <<"A", "B", "C", "D", "E", "F", "G", "H", "I", "J", "K", "L", "M",
               "N", "O", "P", "Q", "R", "S", "T", "U", "V", "W", "X", "Y", "Z">>

LowerCase == <<"a", "b", "c", "d", "e", "f", "g", "h", "i", "j", "k", "l", "m",
               "n", "o", "p", "q", "r", "s", "t", "u", "v", "w", "x", "y", "z">>

\* String.prototype.toLowerCase
toLowerCase(cs) ==
    [i \in 1..Len(cs) |->
        IF \E k \in 1..Len(UpperCase) : UpperCase[k] = cs[i]
        THEN LowerCase[CHOOSE k \in 1..Len(UpperCase) : UpperCase[k] = cs[i]]
        ELSE cs[i]]

\* String.prototype.includes
includes(cs, pattern) ==
    \E i \in 1..(Len(cs) - Len(pattern) + 1) : SubSeq(cs, i, i + Len(pattern) - 1) = pattern

\* String.prototype.startsWith
startsWith(cs, prefix) ==
    Len(cs) >= Len(prefix) /\ SubSeq(cs, 1, Len(prefix)) = prefix

\* String.prototype.substring(0, n)
substring(cs, n) == SubSeq(cs, 1, Min(n, Len(cs)))

\* new URL(src, base).href for the relative URLs that occur
ResolveUrl(src, base) ==
    CASE src = "/p.jpg" /\ base = "http://n/a" -> "http://n/p.jpg"
      [] OTHER -> src

----------------------------------------------------------------------------
(* The images of an article: isValidArticleImage, extractImages and the    *)
(* Open Graph data of a page.                                              *)

\* An <img> element of a page: its attributes ("" when the attribute is
\* absent) and the first of the selectors of extractImages that matches it
\* ("body" when none does).
Img(src, alt, width, height, scope) ==
    [src |-> src, alt |-> alt, width |-> width, height |-> height, scope |-> scope]

\* A page: its <img> elements in document order, its og:image, its text
Html(imgs, og) == [empty |-> FALSE, imgs |-> imgs, og |-> og, text |-> "Page text"]

\* the empty string returned by fetchArticleContent when the fetch failed
EmptyHtml == [empty |-> TRUE, imgs |-> <<>>, og |-> "", text |-> ""]

\* parseInt($(el).attr("width") || "0")
parseInt(attr) ==
    CASE attr = "150" -> 150
      [] attr = "300" -> 300
      [] OTHER -> 0

excludePatterns ==
    << "logo", "icon", "avatar", "badge", "button", "banner", "ad", "advertisement",
       "sprite", "pixel", "tracking", "1x1", "blank.gif", "spacer.gif" >>

isValidArticleImage(src, alt, width, height) ==
    LET srcLower == toLowerCase(Chars(src))
        altLower == toLowerCase(Chars(alt))
    IN /\ \A k \in 1..Len(excludePatterns) :
             ~(includes(srcLower, Chars(excludePatterns[k]))
               \/ includes(altLower, Chars(excludePatterns[k])))
       /\ ~((width > 0 /\ width < 200) \/ (height > 0 /\ height < 200))

\* the img selectors tried in order before the scan of the whole page
articleSelectors == <<"article", "main">>

Image(url, alt, source) == [url |-> url, alt |-> alt, source |-> source]

\* the callback of $(selector).each: the image pushed for an element, if any
PushedImage(el, baseUrl) ==
    LET alt == IF el.alt = "" THEN "Article image" ELSE el.alt
    IN IF el.src # "" /\ isValidArticleImage(el.src, alt, parseInt(el.width), parseInt(el.height))
       THEN << Image(IF startsWith(Chars(el.src), Chars("http")) THEN el.src
                     ELSE ResolveUrl(el.src, baseUrl),
                     alt, "scraped") >>
       ELSE << >>

\* the images pushed for the elements of `els`, in document order
RECURSIVE PushedImages(_, _)
PushedImages(els, baseUrl) ==
    IF els = <<>> THEN <<>>
    ELSE PushedImage(Head(els), baseUrl) \o PushedImages(Tail(els), baseUrl)

\* the loop over articleSelectors, from selector k on: stop at the first
\* selector that yields an image
RECURSIVE ScopedImages(_, _, _)
ScopedImages(html, baseUrl, k) ==
    IF k > Len(articleSelectors) THEN <<>>
    ELSE LET els == SelectSeq(html.imgs, LAMBDA el : el.scope = articleSelectors[k])
             images == PushedImages(els, baseUrl)
         IN IF images # <<>> THEN images ELSE ScopedImages(html, baseUrl, k + 1)

\* [...new Map(images.map(img => [img.url, img])).values()]: one image per
\* URL, at the place of the first and with the value of the last
Dedupe_none(images, i) == images

RECURSIVE Dedupe(_, _)
Dedupe(images, i) ==
    IF i > Len(images) THEN <<>>
    ELSE IF \E j \in 1..(i - 1) : images[j].url = images[i].url
         THEN Dedupe(images, i + 1)
         ELSE LET last == CHOOSE j \in i..Len(images) :
                              /\ images[j].url = images[i].url
                              /\ \A k \in (j + 1)..Len(images) : images[k].url # images[i].url
              IN <<images[last]>> \o Dedupe(images, i + 1)

\* /placeholder|default|sprite|spacer|1x1/i, or google and preferred
LooksLikeFiller(url) ==
    LET lower == toLowerCase(Chars(url))
    IN \/ \E p \in {"placeholder", "default", "sprite", "spacer", "1x1"} : includes(lower, Chars(p))
       \/ includes(lower, Chars("google")) /\ includes(lower, Chars("preferred"))

\* the images found in the page: those of the first selector that yields
\* one, else those of the whole page
CandidateImages(html, baseUrl) ==
    LET scoped == ScopedImages(html, baseUrl, 1)
    IN IF scoped # <<>> THEN scoped ELSE PushedImages(html.imgs, baseUrl)

\* deduped.slice(0, 5)
ImageCap == 5

\* (images and deduped are bound to their values, each computed once)
extractImages(html, baseUrl) ==
    CHOOSE result \in
        { SubSeq(deduped, 1, Min(ImageCap, Len(deduped))) :
            deduped \in { SelectSeq(Dedupe(images, 1), LAMBDA img : ~LooksLikeFiller(img.url)) :
                            images \in {CandidateImages(html, baseUrl)} } } : TRUE

\* extractOpenGraphFromHtml / extractOpenGraphData: the og:image of a page
NoOpenGraph == [image |-> ""]

extractOpenGraphFromHtml(html) == [image |-> html.og]

----------------------------------------------------------------------------
(* scrapeArticle, one call: the per-item pipeline from await to await.     *)

\* an item of a feed or of an API response, with the images it declares
\* (enclosure / media:content / thumbnail, and urlToImage; "" when absent)
ItemWith(t, sm, l, rssImg, urlToImage) ==
    [title |-> t, summary |-> sm, link |-> l, rssImg |-> rssImg, urlToImage |-> urlToImage]

PipeItems ==
    {ItemWith("Big News", sm, "http://n/a", r, u) :
        sm \in {"sum1", "LongSummary"},
        r \in {"", "http://x/p.jpg", "http://x/icon.png", "/p.jpg"},
        u \in {"", "http://x/q.jpg", "http://x/icon.png"}}
    \cup {ItemWith("", "sum1", "http://n/a", "", ""), ItemWith("Big News", "sum1", "", "", "")}

\* the sources whose items are scraped: an RSS source and an API source
PipeSources == {1, 6}

Dims == {"", "150", "300"}

\* what the page of an article may be
Pages ==
    {Html(<<Img(src, "pic", w, h, scope)>>, og) :
        src \in {"http://x/p.jpg", "http://x/LOGO.png"},
        w \in Dims, h \in Dims,
        scope \in {"article", "body"},
        og \in {"", "http://x/q.jpg", "http://x/tracking-pixel.gif"}}
    \cup { Html(<<>>, "http://x/icon.png"),
           Html(<<Img("http://x/icon.png", "", "", "", "article"),
                  Img("http://x/p.jpg", "", "300", "300", "main"),
                  Img("http://x/q.jpg", "", "", "", "body")>>, ""),
           Html(<<Img("http://x/p.jpg", "logo", "", "", "body"),
                  Img("/p.jpg", "", "", "", "body"),
                  Img("http://x/q.jpg", "", "300", "", "body"),
                  Img("http://x/q.jpg", "pic", "", "", "body")>>, "http://x/LOGO.png"),
           Html(<<Img("http://x/p.jpg", "", "", "", "article"),
                  Img("http://x/default.jpg", "", "", "", "article"),
                  Img("http://x/q.jpg", "", "", "", "article"),
                  Img("http://x/p.jpg", "pic", "", "", "article"),
                  Img("http://x/r.jpg", "", "", "", "article"),
                  Img("http://x/q.jpg", "", "", "", "article"),
                  Img("http://x/s.jpg", "", "", "", "article"),
                  Img("http://x/t.jpg", "", "", "", "article"),
                  Img("http://x/u.jpg", "", "", "", "article")>>, "") }

\* options?.mode === 'fast'
fastMode_never(mode) == FALSE

fastMode(mode) == mode = "fast"

\* const existing = await Article.findOne({ hash })
existing_none(st, hash) == FALSE

existing(st, hash) == \E a \in st : a.hash = hash

\* the images of the article, by priority: page, feed item, API item, Open Graph
SelectImages(item, fast, fullContent, openGraphData) ==
    LET scraped == IF ~fast /\ ~fullContent.empty
                   THEN extractImages(fullContent, item.link) ELSE <<>>
        rss == IF scraped = <<>> /\ item.rssImg # ""
                  /\ isValidArticleImage(item.rssImg, item.title, 0, 0)
               THEN << Image(IF startsWith(Chars(item.rssImg), Chars("http")) THEN item.rssImg
                             ELSE ResolveUrl(item.rssImg, item.link),
                             item.title, "rss") >>
               ELSE scraped
        api == IF rss = <<>> /\ item.urlToImage # ""
               THEN << Image(item.urlToImage, item.title, "api") >>
               ELSE rss
        ogLower == toLowerCase(Chars(openGraphData.image))
        looksLikePlaceholder ==
            \/ \E p \in {"logo", "icon", "placeholder", "default"} : includes(ogLower, Chars(p))
            \/ includes(ogLower, Chars("google")) /\ includes(ogLower, Chars("preferred"))
    IN IF ~fast /\ api = <<>> /\ openGraphData.image # "" /\ ~looksLikePlaceholder
       THEN << Image(openGraphData.image, item.title, "opengraph") >>
       ELSE api

\* cleanContent(html): the text of the page, at most 5000 characters
cleanContent(html) == IF html.empty THEN <<>> ELSE substring(Chars(html.text), 5000)

IdlePipe(item, s, mode) ==
    [ pc |-> "idle", item |-> item, src |-> s, mode |-> mode,
      fullContent |-> EmptyHtml, openGraph |-> NoOpenGraph,
      fetches |-> <<>>, result |-> Null ]

\* return null
ReturnNull(p) == [p EXCEPT !.pc = "returned", !.result = Null]

\* the images are selected and the article is returned
ReturnArticle(p) ==
    [p EXCEPT !.pc = "returned",
              !.result = [ title |-> p.item.title,
                           summary |-> substring(Chars(p.item.summary), 300),
                           content |-> IF fastMode(p.mode)
                                       THEN substring(Chars(p.item.summary), SnippetLimit)
                                       ELSE cleanContent(p.fullContent),
                           images |-> SelectImages(p.item, fastMode(p.mode),
                                                   p.fullContent, p.openGraph),
                           sourceUrl |-> p.item.link,
                           hash |-> ItemHash(p.item, p.src),
                           openGraph |-> p.openGraph ]]

\* fullContent is known: the Open Graph data are taken from it, or fetched
AfterContent(p) ==
    IF fastMode(p.mode) THEN ReturnArticle([p EXCEPT !.openGraph = NoOpenGraph])
    ELSE IF ~p.fullContent.empty
         THEN ReturnArticle([p EXCEPT !.openGraph = extractOpenGraphFromHtml(p.fullContent)])
         ELSE [p EXCEPT !.pc = "og", !.fetches = Append(@, "og")]

\* scrapeArticle is called: up to `await Article.findOne({ hash })`
CallScrapeArticle ==
    /\ pipe.pc = "idle"
    /\ pipe' = IF pipe.item.title = "" \/ pipe.item.link = ""
               THEN ReturnNull(pipe)
               ELSE [pipe EXCEPT !.pc = "hashLookup"]
    /\ UNCHANGED <<now, fetchVars, sideVars, store, lastScraped, sourceDocs, run, runNo, obs, abandoned, scrape>>

\* the hash lookup settles: a known item is skipped, a failing lookup is
\* caught, otherwise the page is fetched unless in fast mode or for an API source
HashLookupSettles ==
    /\ pipe.pc = "hashLookup"
    /\ \E ok \in BOOLEAN :
          pipe' = IF ~ok \/ existing(store, ItemHash(pipe.item, pipe.src))
                  THEN ReturnNull(pipe)
                  ELSE IF fastMode(pipe.mode) \/ Source(pipe.src).type = "api"
                       THEN AfterContent([pipe EXCEPT !.fullContent = EmptyHtml])
                       ELSE [pipe EXCEPT !.pc = "page", !.fetches = Append(@, "page")]
    /\ UNCHANGED <<now, fetchVars, sideVars, store, lastScraped, sourceDocs, run, runNo, obs, abandoned, scrape>>

\* fetchArticleContent settles, with the page or, after a failure, with ""
PageFetchSettles ==
    /\ pipe.pc = "page"
    /\ \E html \in Pages \cup {EmptyHtml} :
          pipe' = AfterContent([pipe EXCEPT !.fullContent = html])
    /\ UNCHANGED <<now, fetchVars, sideVars, store, lastScraped, sourceDocs, run, runNo, obs, abandoned, scrape>>

\* extractOpenGraphData settles, with the data of the page or, after a failure, {}
OpenGraphFetchSettles ==
    /\ pipe.pc = "og"
    /\ \E og \in {extractOpenGraphFromHtml(h) : h \in Pages} \cup {NoOpenGraph} :
          pipe' = ReturnArticle([pipe EXCEPT !.openGraph = og])
    /\ UNCHANGED <<now, fetchVars, sideVars, store, lastScraped, sourceDocs, run, runNo, obs, abandoned, scrape>>

\* a document persisted by an earlier run for the item
PersistedCopy(item, s) ==
    [ title |-> item.title, slug |-> slugify(item.title), canonicalUrl |-> item.link,
      hash |-> ItemHash(item, s), status |-> "scraped" ]

InitItem ==
    /\ now = StartTime
    /\ lastRequestTime = 0
    /\ call = <<>>
    /\ dispatched = <<>>
    /\ lastScraped = [s \in SourceIds |-> 0]
    /\ sourceDocs = [s \in SourceIds |-> SourceDoc(s)]
    /\ SideIdle
    /\ run = IdleRun
    /\ runNo = 0
    /\ obs = [faults |-> 0, log |-> {}, storeAtStart |-> {}, created |-> 0,
              dupUrlCreate |-> FALSE]
    /\ abandoned = {}
    /\ scrape = <<>>
    /\ \E item \in PipeItems, s \in PipeSources, mode \in {"fast", "full"} :
          /\ pipe = IdlePipe(item, s, mode)
          /\ store \in {{}, {PersistedCopy(item, s)}}

NextItem ==
    \/ CallScrapeArticle
    \/ HashLookupSettles
    \/ PageFetchSettles
    \/ OpenGraphFetchSettles

SpecItem == InitItem /\ [][NextItem]_vars

----------------------------------------------------------------------------
(* Claims about the item pipeline                                          *)

Returned == pipe.pc = "returned"

(* C12: for an item whose hash is the hash of a persisted article, the     *)
(* pipeline issues no fetch and returns null; and no fetch is issued       *)
(* before the hash lookup has settled.                                     *)
C12_KnownHashNoFetch ==
    /\ (\E a \in store : a.hash = ItemHash(pipe.item, pipe.src))
       => /\ pipe.fetches = <<>>
          /\ pipe.pc \in {"idle", "hashLookup", "returned"}
          /\ Returned => pipe.result = Null
    /\ pipe.pc \in {"idle", "hashLookup"} => pipe.fetches = <<>>

C12_Witness ==
    /\ Returned
    /\ pipe.mode = "full"
    /\ pipe.src = 1
    /\ pipe.item.title # ""
    /\ pipe.item.link # ""
    /\ \E a \in store : a.hash = ItemHash(pipe.item, pipe.src)
    /\ pipe.fetches = <<>>
    /\ pipe.result = Null

----------------------------------------------------------------------------
(* scrapeSource, one call, from await to await.                            *)

IdleScrape(s) ==
    [ pc |-> "idle", s |-> s, f |-> 0, n |-> 0, attempt |-> 0, items |-> <<>>,
      articles |-> <<>>, rssFetched |-> 0, rssFailed |-> 0, itemsSeen |-> 0,
      result |-> Null, trace |-> <<>>, reads |-> <<>> ]

\* an event of the call: the read of a feed, the start and the end of an item
Event(kind, f, n) == [kind |-> kind, f |-> f, n |-> n]

\* return { articles, meta }
ReturnSource(sc) ==
    [sc EXCEPT !.pc = "returned",
               !.result = [ articles |-> sc.articles,
                            meta |-> [ rssUrls |-> Len(Source(sc.s).rssUrls),
                                       rssFetched |-> sc.rssFetched,
                                       rssFailed |-> sc.rssFailed,
                                       itemsSeen |-> sc.itemsSeen ] ]]

\* the API branch, taken after the feeds
BeginApi(sc) ==
    IF HasApi(sc.s)
    THEN [sc EXCEPT !.pc = "api", !.f = 0, !.n = 0,
                    !.trace = Append(@, Event("read", 0, 0))]
    ELSE ReturnSource(sc)

\* the loop over the feed URLs, from URL f on
BeginFeed(sc, f) ==
    IF f <= Len(Source(sc.s).rssUrls)
    THEN [sc EXCEPT !.pc = "primary", !.f = f, !.n = 0, !.attempt = 0,
                    !.trace = Append(@, Event("read", f, 0))]
    ELSE BeginApi(sc)

\* the loop over the items of the feed or API response, from item n on
BeginItem(sc, n) ==
    IF n <= Len(sc.items)
    THEN [sc EXCEPT !.pc = "item", !.n = n,
                    !.trace = Append(@, Event("start", sc.f, n))]
    ELSE IF sc.f = 0 THEN ReturnSource(sc) ELSE BeginFeed(sc, sc.f + 1)

\* retryRequest resolved with a feed: the URL counts as fetched and its
\* items are scraped
FeedFetched(sc, items, primary, path) ==
    BeginItem([sc EXCEPT !.rssFetched = @ + 1,
                         !.itemsSeen = @ + Len(items),
                         !.items = items,
                         !.reads = Append(@, [f |-> sc.f, primary |-> primary, path |-> path,
                                              fetched |-> TRUE, items |-> items])],
              1)

\* the catch of the per-URL try: the URL counts as failed, the next is read
CatchFeedError_abort(sc) ==
    [sc EXCEPT !.pc = "returned",
               !.result = [ articles |-> <<>>,
                            meta |-> [ rssUrls |-> Len(Source(sc.s).rssUrls),
                                       rssFetched |-> 0,
                                       rssFailed |-> Len(Source(sc.s).rssUrls),
                                       itemsSeen |-> 0 ] ]]

CatchFeedError(sc) ==
    BeginFeed([sc EXCEPT !.rssFailed = @ + 1,
                         !.reads = Append(@, [f |-> sc.f, primary |-> "throws", path |-> "fallback",
                                              fetched |-> FALSE, items |-> <<>>])],
              sc.f + 1)

\* articles.push(scraped)
Push_front(articles, scraped) == <<scraped>> \o articles

Push(articles, scraped) == Append(articles, scraped)

CurrentUrl == Source(scrape.s).rssUrls[scrape.f]

CurrentItem == scrape.items[scrape.n]

\* scrapeSource is called: up to the first await
CallScrapeSource ==
    /\ scrape.pc = "idle"
    /\ scrape' = BeginFeed(scrape, 1)
    /\ UNCHANGED <<now, fetchVars, sideVars, store, lastScraped, sourceDocs, run, runNo, obs, abandoned, pipe>>

\* rssParser.parseURL settles: with the feed, with a feed without items,
\* or with an error, after which the raw text is fetched
PrimarySettles ==
    /\ scrape.pc = "primary"
    /\ \E outcome \in {"items", "empty", "throws"} :
          scrape' = CASE outcome = "items" ->
                            FeedFetched(scrape, FeedItems(CurrentUrl),
                                        IF FeedItems(CurrentUrl) = <<>> THEN "empty" ELSE "items",
                                        "primary")
                      [] outcome = "empty" -> FeedFetched(scrape, <<>>, "empty", "primary")
                      [] outcome = "throws" -> [scrape EXCEPT !.pc = "raw"]
    /\ UNCHANGED <<now, fetchVars, sideVars, store, lastScraped, sourceDocs, run, runNo, obs, abandoned, pipe>>

\* the raw fetch and rssParser.parseString settle: with the feed, or with
\* an error that retryRequest retries (the structured parse is tried again)
\* or throws to the catch of the URL
RawSettles ==
    /\ scrape.pc = "raw"
    /\ \/ scrape' = FeedFetched(scrape, FeedItems(CurrentUrl), "throws", "fallback")
       \/ \E error \in ErrorKinds :
             scrape' = IF isLastAttempt(scrape.attempt) \/ ~isRetryableError(error)
                       THEN CatchFeedError(scrape)
                       ELSE [scrape EXCEPT !.pc = "primary", !.attempt = @ + 1]
    /\ UNCHANGED <<now, fetchVars, sideVars, store, lastScraped, sourceDocs, run, runNo, obs, abandoned, pipe>>

\* the API request settles: its articles are scraped, or the error is logged
ApiSettles ==
    /\ scrape.pc = "api"
    /\ \E ok \in BOOLEAN :
          scrape' = IF ok THEN BeginItem([scrape EXCEPT !.items = ApiItems(scrape.s)], 1)
                    ELSE ReturnSource(scrape)
    /\ UNCHANGED <<now, fetchVars, sideVars, store, lastScraped, sourceDocs, run, runNo, obs, abandoned, pipe>>

\* Promise.race settles with the value of scrapeArticle
ItemSettles ==
    /\ scrape.pc = "item"
    /\ \E ev \in {"ok", "lookupError"} :
          LET scraped == scrapeArticle(CurrentItem, scrape.s, store, ev)
              pushed == IF scraped # Null
                        THEN [scrape EXCEPT !.articles = Push(@, scraped)]
                        ELSE scrape
          IN scrape' = BeginItem([pushed EXCEPT !.trace = Append(@, Event("settled", scrape.f, scrape.n))],
                                 scrape.n + 1)
    /\ UNCHANGED <<now, fetchVars, sideVars, store, lastScraped, sourceDocs, run, runNo, obs, abandoned, pipe>>

\* Promise.race settles with the rejection of the deadline: the item is
\* skipped and its pipeline goes on running
ItemDeadline ==
    /\ scrape.pc = "item"
    /\ Valid(CurrentItem)
    /\ scrape' = BeginItem([scrape EXCEPT !.trace = Append(@, Event("timeout", scrape.f, scrape.n))],
                           scrape.n + 1)
    /\ abandoned' = abandoned \cup {Pipeline(scrape.s, CurrentItem)}
    /\ UNCHANGED <<now, fetchVars, sideVars, store, lastScraped, sourceDocs, run, runNo, obs, pipe>>

\* the documents a run has persisted for the items of source s
PersistedOf(s) ==
    {PersistedCopy(FeedsOf(s)[f][n], s) :
        f \in {g \in 1..Len(FeedsOf(s)) : Len(FeedsOf(s)[g]) > 0}, n \in {1}}

InitSource ==
    /\ now = StartTime
    /\ lastRequestTime = 0
    /\ call = <<>>
    /\ dispatched = <<>>
    /\ lastScraped = [s \in SourceIds |-> 0]
    /\ sourceDocs = [s \in SourceIds |-> SourceDoc(s)]
    /\ SideIdle
    /\ run = IdleRun
    /\ runNo = 0
    /\ obs = [faults |-> 0, log |-> {}, storeAtStart |-> {}, created |-> 0,
              dupUrlCreate |-> FALSE]
    /\ abandoned = {}
    /\ pipe = <<>>
    /\ \E s \in SourceIds \cup {ManyFeeds} :
          /\ scrape = IdleScrape(s)
          /\ store \in {{}, PersistedOf(s)}

NextSource ==
    \/ CallScrapeSource
    \/ PrimarySettles
    \/ RawSettles
    \/ ApiSettles
    \/ ItemSettles
    \/ ItemDeadline
    \/ \E a \in abandoned : AbandonedSettles(a)

SpecSource == InitSource /\ [][NextSource]_vars

----------------------------------------------------------------------------
(* Claims about the scraping of one source                                 *)

SourceReturned == scrape.pc = "returned"

(* C13 (as claimed): whenever the structured parse of a feed URL throws or *)
(* returns no item, the URL is read by the fallback path, and when the raw *)
(* fetch succeeds the URL counts as fetched with the items of the raw feed.*)
C13_FallbackOnThrowOrEmpty ==
    \A k \in 1..Len(scrape.reads) :
        LET r == scrape.reads[k]
        IN r.primary \in {"throws", "empty"}
           => /\ r.path = "fallback"
              /\ r.fetched => r.items = FeedItems(Source(scrape.s).rssUrls[r.f])

(* C14: each feed URL that failed on both paths is counted once in         *)
(* rssFailed, and the call goes on: when it returns, every feed URL of the *)
(* source has been read, in particular those after a failed one, and each  *)
(* item of each feed that was fetched has been processed.                  *)
C14_FailedFeedCountedOnce ==
    /\ scrape.rssFailed = Cardinality({k \in 1..Len(scrape.reads) : ~scrape.reads[k].fetched})
    /\ SourceReturned =>
          /\ Len(scrape.reads) = Len(Source(scrape.s).rssUrls)
          /\ scrape.result.meta.rssFailed
                = Cardinality({k \in 1..Len(scrape.reads) : ~scrape.reads[k].fetched})
          /\ \A k \in 1..Len(scrape.reads) :
                /\ scrape.reads[k].f = k
                /\ \A n \in 1..Len(scrape.reads[k].items) :
                      \E i \in 1..Len(scrape.trace) : scrape.trace[i] = Event("start", k, n)

C14_Witness ==
    /\ SourceReturned
    /\ scrape.s = ManyFeeds
    /\ ~scrape.reads[1].fetched
    /\ scrape.reads[2].fetched
    /\ scrape.result.meta.rssFailed = 1
    /\ scrape.result.meta.rssFetched = 2
    /\ \E k \in 1..Len(scrape.result.articles) : scrape.result.articles[k].sourceUrl = "L-B2"

----------------------------------------------------------------------------
(* Claims about the run, continued                                         *)

IsArticleOf(x, a) == x.sourceUrl = a.link /\ x.hash = a.hash

(* C15: an item whose pipeline lost the race against the item deadline is  *)
(* not among the articles scrapeSource resolves with and is not inserted   *)
(* in that run; the items after it are processed (when the timeout is the  *)
(* only failure of a first run, the source resolves with all its other     *)
(* articles); and every document added to the store since the start of    *)
(* the run was added by the Article.create of scrapeAllSources, none by an *)
(* abandoned pipeline.                                                     *)
C15_TimedOutItemSkipped ==
    /\ Cardinality(store \ obs.storeAtStart) = obs.created
    /\ \A a \in abandoned :
          a.run = runNo =>
             /\ \A d \in store \ obs.storeAtStart :
                   ~(d.canonicalUrl = a.link /\ d.hash = a.hash)
             /\ (run.pc # "done" /\ a.src \in DOMAIN run.task
                    /\ run.task[a.src].status = "fulfilled")
                => LET got == run.task[a.src].value.articles
                       all == scrapeSource(a.src, {}, {}).articles
                   IN /\ \A k \in 1..Len(got) : ~IsArticleOf(got[k], a)
                      /\ (runNo = 1 /\ obs.faults = 1)
                         => got = SelectSeq(all, LAMBDA x : ~IsArticleOf(x, a))
             /\ HasStats
                => \A k \in 1..Len(run.outcome.value.articles) :
                      ~IsArticleOf(run.outcome.value.articles[k], a)

C15_Witness ==
    /\ HasStats
    /\ runNo = 1
    /\ obs.faults = 1
    /\ \E a \in abandoned : a.run = 1 /\ a.src = 1 /\ a.link = "L1"
    /\ \E d \in store : d.canonicalUrl = "L2"
    /\ \E k \in 1..Len(run.outcome.value.articles) :
          run.outcome.value.articles[k].sourceUrl = "L2"

(* C16: at most SOURCE_BATCH_SIZE sources are being scraped at a time, and *)
(* while a source of a batch is being scraped, every source of the earlier *)
(* batches has settled and has its entry in perSource.                     *)
C16_BoundedBatches ==
    (run.pc = "scraping") =>
        /\ Cardinality(DOMAIN run.task) <= SOURCE_BATCH_SIZE
        /\ Len(run.perSource) = run.i
        /\ \A n \in 1..run.i :
              /\ run.sources[n] \notin DOMAIN run.task
              /\ \E e \in 1..Len(run.perSource) :
                    run.perSource[e].sourceId = Source(run.sources[n]).id

C16_Witness ==
    /\ run.pc = "scraping"
    /\ run.i = SOURCE_BATCH_SIZE
    /\ Len(run.perSource) = SOURCE_BATCH_SIZE
    /\ \E s \in DOMAIN run.task : run.task[s].status = "running"

----------------------------------------------------------------------------
(* Claims about the scraping of one source, continued                      *)

\* the items of a source in declared order: feed after feed, then the API
Flat(s) == ConcatAll(FeedsOf(s)) \o (IF HasApi(s) THEN ApiItems(s) ELSE <<>>)

PosOf(s, url) == CHOOSE i \in 1..Len(Flat(s)) : Flat(s)[i].link = url

(* C17: the feed URLs of a source are read in declared order (the API      *)
(* after them); an item is started right after the read of its feed or     *)
(* right after the item before it has settled or timed out; and the        *)
(* articles of the source are in the order of the items of the             *)
(* concatenated feeds.                                                     *)
C17_InOrder ==
    LET T == scrape.trace
    IN /\ \A i \in 1..Len(T) : \A j \in 1..Len(T) :
             (i < j /\ T[i].kind = "read" /\ T[j].kind = "read")
             => T[i].f # 0 /\ (T[j].f = 0 \/ T[i].f < T[j].f)
       /\ \A j \in 1..Len(T) :
             /\ T[j].kind = "start"
                => /\ j > 1
                   /\ IF T[j].n = 1
                      THEN T[j - 1] = Event("read", T[j].f, 0)
                      ELSE /\ T[j - 1].kind \in {"settled", "timeout"}
                           /\ T[j - 1].f = T[j].f
                           /\ T[j - 1].n = T[j].n - 1
             /\ T[j].kind \in {"settled", "timeout"}
                => j > 1 /\ T[j - 1] = Event("start", T[j].f, T[j].n)
       /\ \A k \in 1..Len(scrape.articles) : \A l \in 1..Len(scrape.articles) :
             k < l => PosOf(scrape.s, scrape.articles[k].sourceUrl)
                         < PosOf(scrape.s, scrape.articles[l].sourceUrl)
       /\ SourceReturned => scrape.result.articles = scrape.articles

C17_Witness ==
    /\ SourceReturned
    /\ scrape.s = ManyFeeds
    /\ Len(scrape.result.articles) = 4
    /\ \E j \in 1..(Len(scrape.trace) - 1) :
          /\ scrape.trace[j] = Event("timeout", 2, 1)
          /\ scrape.trace[j + 1] = Event("start", 2, 2)
    /\ scrape.result.articles[Len(scrape.result.articles)].sourceUrl = "L6"

----------------------------------------------------------------------------
(* Claims about the item pipeline, continued                               *)

\* the images an item declares, as they are selected
DeclaredImages(item) ==
    {item.urlToImage, item.rssImg, ResolveUrl(item.rssImg, item.link)} \ {""}

(* C18: in fast mode the pipeline issues no fetch; the content of the      *)
(* article is the start of the feed snippet, at most 1000 characters, and  *)
(* its images are images declared by the feed or API item.                 *)
C18_FastModeNoFetch ==
    pipe.mode = "fast" =>
        /\ pipe.fetches = <<>>
        /\ pipe.pc \in {"idle", "hashLookup", "returned"}
        /\ (Returned /\ pipe.result # Null) =>
              LET snippet == Chars(pipe.item.summary)
                  content == pipe.result.content
              IN /\ Len(content) <= SnippetLimit
                 /\ Len(content) = Len(snippet) \/ Len(content) = SnippetLimit
                 /\ content = SubSeq(snippet, 1, Len(content))
                 /\ \A k \in 1..Len(pipe.result.images) :
                       /\ pipe.result.images[k].url \in DeclaredImages(pipe.item)
                       /\ pipe.result.images[k].source \in {"rss", "api"}

C18_Witness ==
    /\ Returned
    /\ pipe.mode = "fast"
    /\ pipe.src = 1
    /\ pipe.result # Null
    /\ pipe.item.summary = "LongSummary"
    /\ Len(pipe.result.content) = SnippetLimit
    /\ Len(pipe.result.images) = 1
    /\ pipe.fetches = <<>>

(* C19 (as claimed): no image selected for an article has a URL that       *)
(* contains "logo", "icon" or "tracking-pixel".                            *)
C19_NoLogoIconPixel ==
    (Returned /\ pipe.result # Null) =>
        \A k \in 1..Len(pipe.result.images) :
            \A word \in {"logo", "icon", "tracking-pixel"} :
                ~includes(Chars(pipe.result.images[k].url), Chars(word))

(* C20 (as claimed): an image of the page, alone on the page and with a    *)
(* URL and an alt text that pass the keyword filter, is rejected exactly   *)
(* when both its width and its height are declared and one of them is      *)
(* below 200.                                                              *)
C20_SizeFloor ==
    (Returned /\ pipe.result # Null /\ Len(pipe.fullContent.imgs) = 1) =>
        LET el == pipe.fullContent.imgs[1]
            bothDeclared == el.width # "" /\ el.height # ""
            tooSmall == parseInt(el.width) < 200 \/ parseInt(el.height) < 200
            selected == \E k \in 1..Len(pipe.result.images) :
                            /\ pipe.result.images[k].source = "scraped"
                            /\ pipe.result.images[k].url = el.src
        IN isValidArticleImage(el.src, el.alt, 0, 0)
           => (selected <=> ~(bothDeclared /\ tooSmall))

----------------------------------------------------------------------------
(* Claims about extractImages                                              *)

\* the place of the first image with the URL among the images found
FirstFound(found, url) == CHOOSE i \in 1..Len(found) :
                              /\ found[i].url = url
                              /\ \A j \in 1..(i - 1) : found[j].url # url

(* C21: the list returned by extractImages for the page of an article has  *)
(* at most 5 entries, no two of them with the same URL, and holds images   *)
(* found in the page in the order in which they were first found; it is    *)
(* the list of images of the article when it is not empty.                 *)
C21_CappedDistinctInOrder ==
    (Returned /\ pipe.result # Null /\ ~pipe.fullContent.empty /\ pipe.mode = "full") =>
        LET found == CandidateImages(pipe.fullContent, pipe.item.link)
            images == extractImages(pipe.fullContent, pipe.item.link)
        IN /\ Len(images) <= 5
           /\ \A i, j \in 1..Len(images) : images[i].url = images[j].url => i = j
           /\ \A i \in 1..Len(images) : \E k \in 1..Len(found) : found[k].url = images[i].url
           /\ \A i, j \in 1..Len(images) :
                  i < j => FirstFound(found, images[i].url) < FirstFound(found, images[j].url)
           /\ images # <<>> => pipe.result.images = images

C21_Witness ==
    /\ Returned
    /\ pipe.result # Null
    /\ pipe.mode = "full"
    /\ Len(pipe.fullContent.imgs) = 9
    /\ Len(CandidateImages(pipe.fullContent, pipe.item.link)) = 9
    /\ [k \in 1..Len(pipe.result.images) |-> pipe.result.images[k].url]
          = <<"http://x/p.jpg", "http://x/q.jpg", "http://x/r.jpg", "http://x/s.jpg",
              "http://x/t.jpg">>
    /\ pipe.result.images[1].alt = "pic"

----------------------------------------------------------------------------
(* computeCategoryFromText (scripts/runScraper.ts).  The texts and the     *)
(* keywords are in several scripts: they are sequences of UTF-16 code      *)
(* units.                                                                  *)

\* the printable ASCII characters, from code unit 32 on (the double quote,
\* the backslash and the backtick, which no text holds, by their names)
Printable ==
    << " ", "!", "QUOTE", "#", "$", "%", "&", "'", "(", ")", "*", "+", ",", "-", ".", "/",
       "0", "1", "2", "3", "4", "5", "6", "7", "8", "9", ":", ";", "<", "=", ">", "?",
       "@", "A", "B", "C", "D", "E", "F", "G", "H", "I", "J", "K", "L", "M", "N", "O",
       "P", "Q", "R", "S", "T", "U", "V", "W", "X", "Y", "Z", "[", "BACKSLASH", "]", "^", "_",
       "BACKTICK", "a", "b", "c", "d", "e", "f", "g", "h", "i", "j", "k", "l", "m", "n", "o",
       "p", "q", "r", "s", "t", "u", "v", "w", "x", "y", "z", "{", "|", "}", "~" >>

CodeUnit(ch) == 31 + CHOOSE i \in 1..Len(Printable) : Printable[i] = ch

\* the code units of an ASCII string
Utf16(s) == [i \in 1..Len(Chars(s)) |-> CodeUnit(Chars(s)[i])]

Max(a, b) == IF a >= b THEN a ELSE b

\* toLowerCase on code units: the scripts other than Latin have no case
LowerUnits(us) == [i \in 1..Len(us) |-> IF us[i] \in 65..90 THEN us[i] + 32 ELSE us[i]]

\* the zero-width characters U+200B to U+200D and U+FEFF
ZeroWidth == {8203, 8204, 8205, 65279}

\* [\p{P}\p{S}] in ASCII and in the Devanagari and Telugu blocks
PunctuationOrSymbol ==
    (33..47) \cup (58..64) \cup (91..96) \cup (123..126) \cup {2404, 2405, 2416, 3191, 3199}

\* \s
WhiteSpace == {9, 10, 11, 12, 13, 32, 160}

\* .replace(/\s+/g, ' '): a run of spaces becomes one space
RECURSIVE Collapse(_, _)
Collapse(us, i) ==
    IF i > Len(us) THEN <<>>
    ELSE IF us[i] = 32 /\ i > 1 /\ us[i - 1] = 32 THEN Collapse(us, i + 1)
         ELSE <<us[i]>> \o Collapse(us, i + 1)

\* .trim() of a text whose runs of spaces are collapsed
Trim(us) ==
    SubSeq(us, IF us # <<>> /\ us[1] = 32 THEN 2 ELSE 1,
               IF us # <<>> /\ us[Len(us)] = 32 THEN Len(us) - 1 ELSE Len(us))

normalize(str) ==
    LET lower == LowerUnits(str)
        joined == SelectSeq(lower, LAMBDA u : u \notin ZeroWidth)
        spaced == [i \in 1..Len(joined) |->
                      IF joined[i] \in PunctuationOrSymbol \cup WhiteSpace THEN 32
                      ELSE joined[i]]
    IN Trim(Collapse(spaced, 1))

\* langMap[code]; <<>> when the code is not a key of the map
langMap(code) ==
    CASE code = Chars("te") -> Chars("telugu")
      [] code = Chars("ta") -> Chars("tamil")
      [] code = Chars("hi") -> Chars("hindi")
      [] code = Chars("bn") -> Chars("bengali")
      [] code = Chars("gu") -> Chars("gujarati")
      [] code = Chars("mr") -> Chars("marathi")
      [] code = Chars("en") -> Chars("english")
      [] OTHER -> <<>>

\* langMap[language?.toLowerCase() || ''] || language?.toLowerCase() || 'english'
\* (a missing language is "")
normalizedLang(language) ==
    LET code == toLowerCase(Chars(language))
    IN IF langMap(code) # <<>> THEN langMap(code)
       ELSE IF code # <<>> THEN code ELSE Chars("english")

\* /[\uLO-\uHI]/.test(word)
InBlock(word, lo, hi) == \E i \in 1..Len(word) : word[i] \in lo..hi

\* the filter of keys.filter: is the keyword one of the language?
IsLangWord(lang, word) ==
    CASE lang = Chars("telugu") -> InBlock(word, 3072, 3199)
      [] lang = Chars("hindi") -> InBlock(word, 2304, 2431)
      [] lang = Chars("tamil") -> InBlock(word, 2944, 3071)
      [] lang = Chars("bengali") -> InBlock(word, 2432, 2559)
      [] lang = Chars("gujarati") -> InBlock(word, 2688, 2815)
      [] lang = Chars("marathi") -> InBlock(word, 2304, 2431)
      [] lang = Chars("english") ->
            word # <<>> /\ \A i \in 1..Len(word) : word[i] \in (65..90) \cup (97..122)
      [] OTHER -> TRUE

partialMatch(t, k) ==
    /\ Len(k) >= 3
    /\ \/ includes(t, k)
       \/ LET stem == SubSeq(k, 1, Max(3, (Len(k) * 7) \div 10))
          IN Len(stem) >= 3 /\ includes(t, stem)

\* Math.max(1, Math.floor(k.length / 4))
Weight(k) == Max(1, Len(k) \div 4)

\* the score of a category: the body of the loop over dict, up to the comparison
\* the sum of the weights of the keywords lo..hi that match
RECURSIVE ScoreRange(_, _, _, _, _)
ScoreRange(keys, lang, text, lo, hi) ==
    IF lo > hi THEN 0
    ELSE IF lo = hi
         THEN IF IsLangWord(lang, keys[lo]) /\ partialMatch(text, keys[lo])
              THEN Weight(keys[lo]) ELSE 0
         ELSE LET mid == (lo + hi) \div 2
              IN ScoreRange(keys, lang, text, lo, mid) + ScoreRange(keys, lang, text, mid + 1, hi)

Score(keys, lang, text) == ScoreRange(keys, lang, text, 1, Len(keys))

\* dict.politics
politics ==
    \* English (line 45)
    << <<112, 111, 108, 105, 116, 105, 99, 115>>,
       <<112, 111, 108, 105, 116, 105, 99, 97, 108>>,
       <<101, 108, 101, 99, 116, 105, 111, 110>>,
       <<101, 108, 101, 99, 116, 105, 111, 110, 115>>,
       <<109, 105, 110, 105, 115, 116, 101, 114>>,
       <<103, 111, 118, 101, 114, 110, 109, 101, 110, 116>>,
       <<112, 97, 114, 108, 105, 97, 109, 101, 110, 116>>,
       <<97, 115, 115, 101, 109, 98, 108, 121>>, <<109, 108, 97>>, <<109, 112>>,
       <<112, 97, 114, 116, 121>>, <<112, 109>>,
       <<112, 114, 101, 115, 105, 100, 101, 110, 116>>,
       <<99, 111, 110, 103, 114, 101, 115, 115>>, <<98, 106, 112>>, <<116, 100, 112>>,
       <<121, 115, 114>>, <<116, 114, 115>>, <<97, 97, 112>>,
       <<99, 97, 98, 105, 110, 101, 116>>,
       <<111, 112, 112, 111, 115, 105, 116, 105, 111, 110>>, <<118, 111, 116, 101>>,
       <<118, 111, 116, 105, 110, 103>>, <<99, 97, 109, 112, 97, 105, 103, 110>>,
    \* Telugu (line 47)
       <<3120, 3134, 3100, 3093, 3136, 3119>>, <<3086, 3112, 3149, 3112, 3135, 3093>>,
       <<3086, 3112, 3149, 3112, 3135, 3093, 3122, 3137>>,
       <<3118, 3074, 3108, 3149, 3120, 3135>>,
       <<3114, 3149, 3120, 3117, 3137, 3108, 3149, 3125>>,
       <<3077, 3128, 3142, 3074, 3116, 3149, 3122, 3136>>,
       <<3114, 3134, 3120, 3149, 3103, 3136>>,
       <<3118, 3137, 3094, 3149, 3119, 3118, 3074, 3108, 3149, 3120, 3135>>,
       <<3077, 3111, 3149, 3119, 3093, 3149, 3127, 3137, 3105, 3137>>,
       <<3086, 3074, 3114, 3136>>, <<3086, 3074, 3086, 3122, 3149, 3087>>,
       <<3112, 3143, 3108>>, <<3112, 3134, 3119, 3093, 3137, 3105, 3137>>,
       <<3114, 3149, 3120, 3108, 3135, 3114, 3093, 3149, 3127, 3074>>, <<3091, 3103, 3137>>,
       <<3091, 3103, 3135, 3074, 3095, 3149>>,
       <<3093, 3149, 3119, 3134, 3116, 3135, 3112, 3142, 3103, 3149>>,
    \* Tamil (line 49)
       <<2992, 3006, 2972, 2965, 3007, 2991, 2990, 3021>>,
       <<2992, 3006, 2972, 2965, 3007, 2991>>, <<2980, 3015, 2992, 3021, 2980, 2994, 3021>>,
       <<2949, 2992, 2970, 3009>>, <<2990, 2984, 3021, 2980, 3007, 2992, 3007>>,
       <<2986, 3006, 2992, 3006, 2995, 3009, 2990, 2985, 3021, 2993, 2990, 3021>>,
       <<2970, 2975, 3021, 2975, 2990, 2985, 3021, 2993, 2990, 3021>>,
       <<2965, 2975, 3021, 2970, 3007>>, <<2986, 3007, 2992, 2980, 2990, 2992, 3021>>,
       <<2958, 2990, 3021, 2958, 2994, 3021, 2959>>, <<2958, 2990, 3021, 2986, 3007>>,
       <<2958, 2980, 3007, 2992, 3021, 2965, 3021, 2965, 2975, 3021, 2970, 3007, 2965, 2995, 3021>>,
       <<2997, 3006, 2965, 3021, 2965, 3009>>,
       <<2997, 3006, 2965, 3021, 2965, 3009, 2986, 3021, 2986, 2980, 3007, 2997, 3009>>,
    \* Hindi (line 51)
       <<2352, 2366, 2332, 2344, 2368, 2340, 2367>>, <<2330, 2369, 2344, 2366, 2357>>,
       <<2350, 2306, 2340, 2381, 2352, 2368>>, <<2360, 2352, 2325, 2366, 2352>>,
       <<2360, 2306, 2360, 2342>>, <<2357, 2367, 2343, 2366, 2344, 2360, 2349, 2366>>,
       <<2346, 2366, 2352, 2381, 2335, 2368>>,
       <<2350, 2369, 2326, 2381, 2351, 2350, 2306, 2340, 2381, 2352, 2368>>,
       <<2352, 2366, 2359, 2381, 2335, 2381, 2352, 2346, 2340, 2367>>,
       <<2360, 2366, 2306, 2360, 2342>>, <<2357, 2367, 2343, 2366, 2351, 2325>>,
       <<2344, 2375, 2340, 2366>>, <<2357, 2367, 2346, 2325, 2381, 2359>>,
       <<2350, 2340, 2342, 2366, 2344>>, <<2309, 2349, 2367, 2351, 2366, 2344>>,
    \* Bengali (line 53)
       <<2480, 2494, 2460, 2472, 2496, 2468, 2495>>,
       <<2472, 2495, 2480, 2509, 2476, 2494, 2458, 2472>>,
       <<2478, 2472, 2509, 2468, 2509, 2480, 2496>>, <<2488, 2480, 2453, 2494, 2480>>,
       <<2488, 2434, 2488, 2470>>, <<2476, 2495, 2471, 2494, 2472, 2488, 2477, 2494>>,
       <<2470, 2482>>,
       <<2478, 2497, 2454, 2509, 2479, 2478, 2472, 2509, 2468, 2509, 2480, 2496>>,
       <<2480, 2494, 2487, 2509, 2463, 2509, 2480, 2474, 2468, 2495>>,
       <<2488, 2494, 2434, 2488, 2470>>, <<2476, 2495, 2471, 2494, 2479, 2492, 2453>>,
       <<2472, 2503, 2468, 2494>>, <<2476, 2495, 2480, 2507, 2471, 2496>>,
       <<2477, 2507, 2463>>, <<2474, 2509, 2480, 2458, 2494, 2480>>,
    \* Gujarati (line 55)
       <<2736, 2750, 2716, 2709, 2750, 2736, 2723>>, <<2714, 2754, 2690, 2719, 2723, 2752>>,
       <<2734, 2690, 2724, 2765, 2736, 2752>>, <<2744, 2736, 2709, 2750, 2736>>,
       <<2744, 2690, 2744, 2726>>, <<2741, 2751, 2727, 2750, 2728, 2744, 2733, 2750>>,
       <<2730, 2709, 2765, 2743>>,
       <<2734, 2753, 2710, 2765, 2735, 2734, 2690, 2724, 2765, 2736, 2752>>,
       <<2736, 2750, 2743, 2765, 2719, 2765, 2736, 2730, 2724, 2751>>,
       <<2744, 2750, 2690, 2744, 2726>>, <<2741, 2751, 2727, 2750, 2735, 2709>>,
       <<2728, 2759, 2724, 2750>>, <<2741, 2751, 2736, 2763, 2727, 2752>>,
       <<2734, 2724, 2726, 2750, 2728>>, <<2693, 2733, 2751, 2735, 2750, 2728>>,
    \* Marathi (line 57)
       <<2352, 2366, 2332, 2325, 2366, 2352, 2339>>,
       <<2344, 2367, 2357, 2337, 2339, 2370, 2325>>, <<2350, 2306, 2340, 2381, 2352, 2368>>,
       <<2360, 2352, 2325, 2366, 2352>>, <<2360, 2306, 2360, 2342>>,
       <<2357, 2367, 2343, 2366, 2344, 2360, 2349, 2366>>, <<2346, 2325, 2381, 2359>>,
       <<2350, 2369, 2326, 2381, 2351, 2350, 2306, 2340, 2381, 2352, 2368>>,
       <<2352, 2366, 2359, 2381, 2335, 2381, 2352, 2346, 2340, 2368>>,
       <<2326, 2366, 2360, 2342, 2366, 2352>>, <<2310, 2350, 2342, 2366, 2352>>,
       <<2344, 2375, 2340, 2366>>, <<2357, 2367, 2352, 2379, 2343, 2368>>,
       <<2350, 2340, 2342, 2366, 2344>>, <<2350, 2379, 2361, 2368, 2350>> >>

\* dict.sports
sports ==
    \* English (line 61)
    << <<115, 112, 111, 114, 116, 115>>, <<115, 112, 111, 114, 116>>,
       <<99, 114, 105, 99, 107, 101, 116>>, <<102, 111, 111, 116, 98, 97, 108, 108>>,
       <<115, 111, 99, 99, 101, 114>>, <<116, 101, 110, 110, 105, 115>>,
       <<98, 97, 100, 109, 105, 110, 116, 111, 110>>, <<104, 111, 99, 107, 101, 121>>,
       <<105, 112, 108>>, <<109, 97, 116, 99, 104>>, <<112, 108, 97, 121, 101, 114>>,
       <<116, 111, 117, 114, 110, 97, 109, 101, 110, 116>>, <<115, 99, 111, 114, 101>>,
       <<103, 111, 97, 108>>, <<119, 105, 110, 110, 101, 114>>, <<108, 111, 115, 101, 114>>,
       <<115, 101, 114, 105, 101, 115>>, <<108, 101, 97, 103, 117, 101>>, <<99, 117, 112>>,
    \* Telugu (line 63)
       <<3093, 3149, 3120, 3136, 3105>>, <<3093, 3149, 3120, 3136, 3105, 3122, 3137>>,
       <<3093, 3149, 3120, 3136, 3105, 3122>>,
       <<3093, 3149, 3120, 3136, 3105, 3122, 3122, 3147>>, <<3078, 3103>>,
       <<3078, 3103, 3122, 3137>>, <<3118, 3149, 3119, 3134, 3098, 3149>>,
       <<3118, 3149, 3119, 3134, 3098, 3149, 8204, 3122, 3137>>,
       <<3118, 3149, 3119, 3134, 3098, 3137, 3122, 3137>>,
       <<3115, 3122, 3135, 3108, 3134, 3122, 3137>>, <<3100, 3103, 3149, 3103, 3137>>,
       <<3100, 3103, 3149, 3122, 3137>>, <<3100, 3103, 3149, 3103, 3137, 3122, 3147>>,
       <<3114, 3149, 3122, 3143, 3119, 3120, 3149>>,
       <<3114, 3149, 3122, 3143, 3119, 3120, 3149, 3122, 3137>>,
       <<3078, 3103, 3095, 3134, 3105, 3137>>,
       <<3078, 3103, 3095, 3134, 3123, 3149, 3122, 3137>>, <<3125, 3135, 3100, 3119, 3074>>,
       <<3091, 3103, 3118, 3135>>,
       <<3120, 3149, 3119, 3134, 3074, 3093, 3135, 3074, 3095, 3149>>,
       <<3128, 3135, 3120, 3136, 3128, 3149>>, <<3122, 3136, 3095, 3149>>,
       <<3093, 3114, 3149>>, <<3093, 3149, 3120, 3135, 3093, 3142, 3103, 3149>>,
       <<3115, 3137, 3103, 3149, 3116, 3134, 3122, 3149>>,
       <<3103, 3142, 3112, 3149, 3112, 3135, 3128, 3149>>,
       <<3116, 3149, 3119, 3134, 3105, 3149, 3118, 3135, 3074, 3103, 3112, 3149>>,
       <<3129, 3134, 3093, 3136>>,
    \* Tamil (line 65)
       <<2997, 3007, 2995, 3016, 2991, 3006, 2975, 3021, 2975, 3009>>,
       <<2997, 3007, 2995, 3016, 2991, 3006, 2975, 3021, 2975, 3009, 2965, 2995, 3021>>,
       <<2965, 3007, 2992, 3007, 2965, 3021, 2965, 3014, 2975, 3021>>,
       <<2965, 3006, 2994, 3021, 2986, 2984, 3021, 2980, 3009>>,
       <<2975, 3014, 2985, 3021, 2985, 3007, 3000, 3021>>,
       <<2986, 3015, 2975, 3021, 2990, 3007, 2979, 3021, 2975, 2985, 3021>>,
       <<3001, 3006, 2965, 3021, 2965, 3007>>, <<2986, 3019, 2975, 3021, 2975, 3007>>,
       <<2990, 3015, 2975, 3021, 2970, 3021>>, <<2949, 2979, 3007>>,
       <<2997, 3008, 2992, 2992, 3021>>, <<3000, 3021, 2965, 3019, 2992, 3021>>,
       <<2994, 3008, 2965, 3021>>, <<2965, 2986, 3021>>,
    \* Hindi (line 67)
       <<2326, 2375, 2354>>, <<2325, 2381, 2352, 2367, 2325, 2375, 2335>>,
       <<2347, 2369, 2335, 2348, 2377, 2354>>, <<2335, 2375, 2344, 2367, 2360>>,
       <<2348, 2376, 2337, 2350, 2367, 2306, 2335, 2344>>, <<2361, 2377, 2325, 2368>>,
       <<2350, 2376, 2330>>, <<2326, 2367, 2354, 2366, 2337, 2364, 2368>>,
       <<2335, 2370, 2352, 2381, 2344, 2366, 2350, 2375, 2306, 2335>>,
       <<2360, 2381, 2325, 2379, 2352>>, <<2327, 2379, 2354>>,
       <<2357, 2367, 2332, 2375, 2340, 2366>>,
       <<2361, 2366, 2352, 2344, 2375, 2357, 2366, 2354, 2366>>,
       <<2360, 2368, 2352, 2368, 2332>>, <<2354, 2368, 2327>>, <<2325, 2346>>,
    \* Bengali (line 69)
       <<2454, 2503, 2482, 2494>>, <<2453, 2509, 2480, 2495, 2453, 2503, 2463>>,
       <<2475, 2497, 2463, 2476, 2482>>, <<2463, 2503, 2472, 2495, 2488>>,
       <<2476, 2509, 2479, 2494, 2465, 2478, 2495, 2472, 2509, 2463, 2472>>,
       <<2489, 2453, 2495>>, <<2478, 2509, 2479, 2494, 2458>>,
       <<2454, 2503, 2482, 2507, 2479, 2492, 2494, 2465, 2492>>,
       <<2463, 2497, 2480, 2509, 2472, 2494, 2478, 2503, 2472, 2509, 2463>>,
       <<2488, 2509, 2453, 2507, 2480>>, <<2455, 2507, 2482>>,
       <<2476, 2495, 2460, 2479, 2492, 2496>>, <<2474, 2480, 2494, 2460, 2495, 2468>>,
       <<2488, 2495, 2480, 2495, 2460>>, <<2482, 2495, 2455>>, <<2453, 2494, 2474>>,
    \* Gujarati (line 71)
       <<2736, 2734, 2724>>, <<2709, 2765, 2736, 2751, 2709, 2759, 2719>>,
       <<2731, 2753, 2719, 2732, 2763, 2738>>, <<2719, 2759, 2728, 2751, 2744>>,
       <<2732, 2759, 2721, 2734, 2751, 2728, 2765, 2719, 2728>>, <<2745, 2763, 2709, 2752>>,
       <<2734, 2759, 2714>>, <<2736, 2734, 2724, 2741, 2752, 2736>>,
       <<2719, 2753, 2736, 2765, 2728, 2750, 2734, 2759, 2728, 2765, 2719>>,
       <<2744, 2765, 2709, 2763, 2736>>, <<2711, 2763, 2738>>,
       <<2741, 2751, 2716, 2759, 2724, 2750>>, <<2745, 2750, 2736, 2728, 2750, 2736>>,
       <<2744, 2751, 2736, 2751, 2717>>, <<2738, 2752, 2711>>, <<2709, 2730>>,
    \* Marathi (line 73)
       <<2326, 2375, 2355>>, <<2325, 2381, 2352, 2367, 2325, 2375, 2335>>,
       <<2347, 2369, 2335, 2348, 2377, 2354>>, <<2335, 2375, 2344, 2367, 2360>>,
       <<2348, 2373, 2337, 2350, 2367, 2306, 2335, 2344>>, <<2361, 2377, 2325, 2368>>,
       <<2360, 2366, 2350, 2344, 2366>>, <<2326, 2375, 2355, 2366, 2337, 2370>>,
       <<2360, 2381, 2346, 2352, 2381, 2343, 2366>>, <<2327, 2379, 2354>>,
       <<2357, 2367, 2332, 2375, 2340, 2366>>, <<2361, 2352, 2354, 2375, 2354, 2366>>,
       <<2350, 2366, 2354, 2367, 2325, 2366>>, <<2354, 2368, 2327>>, <<2325, 2346>> >>

\* dict.entertainment
entertainment ==
    \* English (line 77)
    << <<101, 110, 116, 101, 114, 116, 97, 105, 110, 109, 101, 110, 116>>,
       <<109, 111, 118, 105, 101>>, <<109, 111, 118, 105, 101, 115>>, <<102, 105, 108, 109>>,
       <<99, 105, 110, 101, 109, 97>>, <<97, 99, 116, 111, 114>>,
       <<97, 99, 116, 114, 101, 115, 115>>, <<100, 105, 114, 101, 99, 116, 111, 114>>,
       <<116, 114, 97, 105, 108, 101, 114>>, <<115, 111, 110, 103>>,
       <<114, 101, 118, 105, 101, 119>>, <<98, 111, 108, 108, 121, 119, 111, 111, 100>>,
       <<116, 111, 108, 108, 121, 119, 111, 111, 100>>,
       <<107, 111, 108, 108, 121, 119, 111, 111, 100>>,
       <<98, 111, 120, 32, 111, 102, 102, 105, 99, 101>>,
    \* Telugu (line 79)
       <<3128, 3135, 3112, 3135, 3118, 3134>>, <<3098, 3135, 3108, 3149, 3120, 3074>>,
       <<3098, 3122, 3112, 3098, 3135, 3108, 3149, 3120, 3074>>,
       <<3112, 3103, 3137, 3105, 3137>>, <<3112, 3103, 3135>>, <<3129, 3136, 3120, 3147>>,
       <<3129, 3136, 3120, 3147, 3119, 3135, 3112, 3149>>,
       <<3110, 3120, 3149, 3126, 3093, 3137, 3105, 3137>>,
       <<3103, 3149, 3120, 3144, 3122, 3120, 3149>>, <<3114, 3134, 3103>>,
       <<3128, 3134, 3074, 3095, 3149>>, <<3128, 3118, 3136, 3093, 3149, 3127>>,
       <<3120, 3135, 3125, 3149, 3119, 3138>>,
       <<3116, 3134, 3093, 3149, 3128, 3134, 3115, 3136, 3128, 3149>>,
       <<3116, 3134, 3093, 3149, 3128, 3149, 32, 3078, 3115, 3136, 3128, 3149>>,
       <<3103, 3134, 3122, 3136, 3125, 3137, 3105, 3149>>,
       <<3116, 3134, 3122, 3136, 3125, 3137, 3105, 3149>>,
       <<3093, 3147, 3122, 3136, 3125, 3137, 3105, 3149>>,
       <<3125, 3142, 3116, 3149, 32, 3128, 3135, 3120, 3136, 3128, 3149>>,
       <<3128, 3136, 3120, 3135, 3119, 3122, 3149>>,
    \* Tamil (line 81)
       <<2986, 3018, 2996, 3009, 2980, 3009, 2986, 3019, 2965, 3021, 2965, 3009>>,
       <<2980, 3007, 2992, 3016, 2986, 3021, 2986, 2975, 2990, 3021>>,
       <<2970, 3007, 2985, 3007, 2990, 3006>>, <<2984, 2975, 3007, 2965, 2992, 3021>>,
       <<2984, 2975, 3007, 2965, 3016>>,
       <<2951, 2991, 2965, 3021, 2965, 3009, 2985, 2992, 3021>>,
       <<2975, 3007, 2992, 3016, 2994, 2992, 3021>>, <<2986, 3006, 2975, 2994, 3021>>,
       <<2997, 3007, 2990, 2992, 3021, 2970, 2985, 2990, 3021>>,
       <<2986, 3006, 2965, 3021, 3000, 3021, 32, 2950, 2986, 3007, 3000, 3021>>,
       <<2965, 3006, 2994, 3007, 2997, 3009, 2975, 3021>>,
       <<2965, 3018, 2994, 3007, 2997, 3009, 2975, 3021>>,
       <<2980, 3018, 2994, 3016, 2965, 3021, 2965, 3006, 2975, 3021, 2970, 3007>>,
    \* Hindi (line 83)
       <<2350, 2344, 2379, 2352, 2306, 2332, 2344>>, <<2347, 2367, 2354, 2381, 2350>>,
       <<2360, 2367, 2344, 2375, 2350, 2366>>, <<2309, 2349, 2367, 2344, 2375, 2340, 2366>>,
       <<2309, 2349, 2367, 2344, 2375, 2340, 2381, 2352, 2368>>,
       <<2344, 2367, 2352, 2381, 2342, 2375, 2358, 2325>>,
       <<2335, 2381, 2352, 2375, 2354, 2352>>, <<2327, 2366, 2344, 2366>>,
       <<2360, 2350, 2368, 2325, 2381, 2359, 2366>>,
       <<2348, 2377, 2354, 2368, 2357, 2369, 2337>>,
       <<2335, 2377, 2354, 2368, 2357, 2369, 2337>>,
       <<2325, 2379, 2354, 2368, 2357, 2369, 2337>>,
       <<2348, 2377, 2325, 2381, 2360, 32, 2321, 2347, 2367, 2360>>,
    \* Bengali (line 85)
       <<2476, 2495, 2472, 2507, 2470, 2472>>,
       <<2458, 2482, 2458, 2509, 2458, 2495, 2468, 2509, 2480>>,
       <<2488, 2495, 2472, 2503, 2478, 2494>>, <<2437, 2477, 2495, 2472, 2503, 2468, 2494>>,
       <<2437, 2477, 2495, 2472, 2503, 2468, 2509, 2480, 2496>>,
       <<2474, 2480, 2495, 2458, 2494, 2482, 2453>>,
       <<2463, 2509, 2480, 2503, 2439, 2482, 2494, 2480>>, <<2455, 2494, 2472>>,
       <<2488, 2478, 2494, 2482, 2507, 2458, 2472, 2494>>, <<2476, 2482, 2495, 2441, 2465>>,
       <<2463, 2482, 2495, 2441, 2465>>, <<2453, 2482, 2495, 2441, 2465>>,
       <<2476, 2453, 2509, 2488, 32, 2437, 2475, 2495, 2488>>,
    \* Gujarati (line 87)
       <<2734, 2728, 2763, 2736, 2690, 2716, 2728>>, <<2731, 2751, 2738, 2765, 2734>>,
       <<2744, 2751, 2728, 2759, 2734, 2750>>, <<2693, 2733, 2751, 2728, 2759, 2724, 2750>>,
       <<2693, 2733, 2751, 2728, 2759, 2724, 2765, 2736, 2752>>,
       <<2726, 2751, 2711, 2765, 2726, 2736, 2765, 2742, 2709>>,
       <<2719, 2765, 2736, 2759, 2738, 2736>>, <<2711, 2752, 2724>>,
       <<2744, 2734, 2752, 2709, 2765, 2743, 2750>>,
       <<2732, 2763, 2738, 2752, 2741, 2753, 2721>>,
       <<2719, 2763, 2738, 2752, 2741, 2753, 2721>>,
       <<2709, 2763, 2738, 2752, 2741, 2753, 2721>>,
       <<2732, 2763, 2709, 2765, 2744, 32, 2707, 2731, 2751, 2744>>,
    \* Marathi (line 89)
       <<2350, 2344, 2379, 2352, 2306, 2332, 2344>>,
       <<2330, 2367, 2340, 2381, 2352, 2346, 2335>>, <<2360, 2367, 2344, 2375, 2350, 2366>>,
       <<2309, 2349, 2367, 2344, 2375, 2340, 2366>>,
       <<2309, 2349, 2367, 2344, 2375, 2340, 2381, 2352, 2368>>,
       <<2342, 2367, 2327, 2381, 2342, 2352, 2381, 2358, 2325>>,
       <<2335, 2381, 2352, 2375, 2354, 2352>>, <<2327, 2366, 2339, 2375>>,
       <<2360, 2350, 2368, 2325, 2381, 2359, 2366>>,
       <<2348, 2377, 2354, 2367, 2357, 2370, 2337>>,
       <<2335, 2377, 2354, 2367, 2357, 2370, 2337>>,
       <<2325, 2379, 2354, 2367, 2357, 2370, 2337>>,
       <<2348, 2377, 2325, 2381, 2360, 32, 2321, 2347, 2367, 2360>> >>

\* dict.technology
technology ==
    \* English (line 93)
    << <<116, 101, 99, 104, 110, 111, 108, 111, 103, 121>>, <<116, 101, 99, 104>>,
       <<103, 97, 100, 103, 101, 116>>, <<115, 109, 97, 114, 116, 112, 104, 111, 110, 101>>,
       <<109, 111, 98, 105, 108, 101>>, <<97, 105>>,
       <<97, 114, 116, 105, 102, 105, 99, 105, 97, 108, 32, 105, 110, 116, 101, 108, 108, 105, 103, 101, 110, 99, 101>>,
       <<115, 111, 102, 116, 119, 97, 114, 101>>, <<105, 110, 116, 101, 114, 110, 101, 116>>,
       <<114, 111, 98, 111, 116>>, <<115, 116, 97, 114, 116, 117, 112>>, <<97, 112, 112>>,
       <<117, 112, 100, 97, 116, 101>>, <<99, 104, 105, 112>>,
       <<115, 101, 109, 105, 99, 111, 110, 100, 117, 99, 116, 111, 114>>,
    \* Telugu (line 95)
       <<3103, 3142, 3093, 3149, 3112, 3134, 3122, 3100, 3136>>,
       <<3128, 3134, 3074, 3093, 3143, 3108, 3135, 3093, 3074>>,
       <<3128, 3134, 3074, 3093, 3143, 3108, 3135, 3093>>,
       <<3095, 3134, 3105, 3149, 3100, 3142, 3103, 3149>>,
       <<3118, 3146, 3116, 3144, 3122, 3149>>,
       <<3128, 3149, 3118, 3134, 3120, 3149, 3103, 3149, 8204, 3115, 3147, 3112, 3149>>,
       <<3093, 3139, 3108, 3149, 3120, 3135, 3118, 32, 3118, 3143, 3111, 3128, 3149, 3128, 3137>>,
       <<3086, 3088>>, <<3128, 3134, 3115, 3149, 3103, 3149, 8204, 3125, 3143, 3120, 3149>>,
       <<3079, 3074, 3103, 3120, 3149, 3112, 3142, 3103, 3149>>,
       <<3120, 3147, 3116, 3147, 3103, 3149>>,
       <<3128, 3149, 3103, 3134, 3120, 3149, 3103, 3114, 3149>>, <<3119, 3134, 3114, 3149>>,
       <<3077, 3114, 3149, 3105, 3143, 3103, 3149>>, <<3098, 3135, 3114, 3149>>,
    \* Tamil (line 97)
       <<2980, 3018, 2996, 3007, 2994, 3021, 2984, 3009, 2975, 3021, 2986, 2990, 3021>>,
       <<2975, 3014, 2965, 3021>>, <<2965, 3015, 2975, 3021, 2972, 3014, 2975, 3021>>,
       <<3000, 3021, 2990, 3006, 2992, 3021, 2975, 3021, 2986, 3019, 2985, 3021>>,
       <<2990, 3018, 2986, 3016, 2994, 3021>>, <<2965, 2979, 3007, 2985, 3007>>,
       <<2990, 3014, 2985, 3021, 2986, 3018, 2992, 3009, 2995, 3021>>,
       <<2951, 2979, 3016, 2991, 2990, 3021>>, <<2992, 3019, 2986, 3019, 2975, 3021>>,
       <<3000, 3021, 2975, 3006, 2992, 3021, 2975, 3021, 2949, 2986, 3021>>,
       <<2970, 3007, 2986, 3021>>,
       <<2986, 3009, 2980, 3009, 2986, 3021, 2986, 3007, 2986, 3021, 2986, 3009>>,
    \* Hindi (line 99)
       <<2340, 2325, 2344, 2368, 2325>>, <<2327, 2376, 2332, 2375, 2335>>,
       <<2360, 2381, 2350, 2366, 2352, 2381, 2335, 2347, 2379, 2344>>,
       <<2350, 2379, 2348, 2366, 2311, 2354>>,
       <<2325, 2371, 2340, 2381, 2352, 2367, 2350, 32, 2348, 2369, 2342, 2381, 2343, 2367, 2350, 2340, 2381, 2340, 2366>>,
       <<2360, 2377, 2347, 2381, 2335, 2357, 2375, 2351, 2352>>,
       <<2311, 2306, 2335, 2352, 2344, 2375, 2335>>, <<2352, 2379, 2348, 2379, 2335>>,
       <<2360, 2381, 2335, 2366, 2352, 2381, 2335, 2309, 2346>>, <<2320, 2346>>,
       <<2309, 2346, 2337, 2375, 2335>>, <<2330, 2367, 2346>>,
    \* Bengali (line 101)
       <<2474, 2509, 2480, 2479, 2497, 2453, 2509, 2468, 2495>>,
       <<2455, 2509, 2479, 2494, 2460, 2503, 2463>>,
       <<2488, 2509, 2478, 2494, 2480, 2509, 2463, 2475, 2507, 2472>>,
       <<2478, 2507, 2476, 2494, 2439, 2482>>,
       <<2453, 2499, 2468, 2509, 2480, 2495, 2478, 32, 2476, 2497, 2470, 2509, 2471, 2495, 2478, 2468, 2509, 2468, 2494>>,
       <<2488, 2475, 2463, 2451, 2479, 2492, 2509, 2479, 2494, 2480>>,
       <<2439, 2472, 2509, 2463, 2494, 2480, 2472, 2503, 2463>>, <<2480, 2507, 2476, 2463>>,
       <<2488, 2509, 2463, 2494, 2480, 2509, 2463, 2438, 2474>>,
       <<2437, 2509, 2479, 2494, 2474>>, <<2438, 2474, 2465, 2503, 2463>>,
       <<2458, 2495, 2474>>,
    \* Gujarati (line 103)
       <<2719, 2759, 2709, 2728, 2763, 2738, 2763, 2716, 2752>>,
       <<2711, 2759, 2716, 2759, 2719>>,
       <<2744, 2765, 2734, 2750, 2736, 2765, 2719, 2731, 2763, 2728>>,
       <<2734, 2763, 2732, 2750, 2695, 2738>>,
       <<2709, 2755, 2724, 2765, 2736, 2751, 2734, 32, 2732, 2753, 2726, 2765, 2727, 2751>>,
       <<2744, 2763, 2731, 2765, 2719, 2741, 2759, 2736>>,
       <<2695, 2728, 2765, 2719, 2736, 2728, 2759, 2719>>, <<2736, 2763, 2732, 2763, 2719>>,
       <<2744, 2765, 2719, 2750, 2736, 2765, 2719, 2693, 2730>>, <<2703, 2730>>,
       <<2693, 2730, 2721, 2759, 2719>>, <<2714, 2751, 2730>>,
    \* Marathi (line 105)
       <<2340, 2306, 2340, 2381, 2352, 2332, 2381, 2334, 2366, 2344>>,
       <<2327, 2373, 2332, 2375, 2335>>,
       <<2360, 2381, 2350, 2366, 2352, 2381, 2335, 2347, 2379, 2344>>,
       <<2350, 2379, 2348, 2366, 2311, 2354>>,
       <<2325, 2371, 2340, 2381, 2352, 2367, 2350, 32, 2348, 2369, 2342, 2381, 2343, 2367, 2350, 2340, 2381, 2340, 2366>>,
       <<2360, 2377, 2347, 2381, 2335, 2357, 2375, 2309, 2352>>,
       <<2311, 2306, 2335, 2352, 2344, 2375, 2335>>, <<2352, 2379, 2348, 2379, 2335>>,
       <<2360, 2381, 2335, 2366, 2352, 2381, 2335, 2309, 2346>>, <<2309, 2373, 2346>>,
       <<2309, 2346, 2337, 2375, 2335>>, <<2330, 2367, 2346>> >>

\* dict.health
health ==
    \* English (line 109)
    << <<104, 101, 97, 108, 116, 104>>, <<104, 111, 115, 112, 105, 116, 97, 108>>,
       <<100, 111, 99, 116, 111, 114>>, <<99, 111, 118, 105, 100>>,
       <<118, 97, 99, 99, 105, 110, 101>>, <<109, 101, 100, 105, 99, 97, 108>>,
       <<102, 105, 116, 110, 101, 115, 115>>, <<100, 105, 115, 101, 97, 115, 101>>,
       <<116, 104, 101, 114, 97, 112, 121>>, <<116, 114, 101, 97, 116, 109, 101, 110, 116>>,
       <<109, 101, 100, 105, 99, 105, 110, 101>>,
    \* Telugu (line 111)
       <<3078, 3120, 3147, 3095, 3149, 3119, 3074>>, <<3078, 3120, 3147, 3095, 3149, 3119>>,
       <<3078, 3128, 3137, 3114, 3108, 3149, 3120, 3135>>,
       <<3129, 3134, 3128, 3149, 3114, 3135, 3103, 3122, 3149>>,
       <<3105, 3134, 3093, 3149, 3103, 3120, 3149>>,
       <<3125, 3149, 3119, 3134, 3093, 3149, 3128, 3135, 3112, 3149>>,
       <<3103, 3136, 3093, 3134>>, <<3125, 3144, 3110, 3149, 3119, 3074>>,
       <<3125, 3149, 3119, 3134, 3111, 3135>>, <<3100, 3116, 3149, 3116, 3137>>,
       <<3098, 3135, 3093, 3135, 3108, 3149, 3128>>, <<3092, 3127, 3111, 3074>>,
       <<3115, 3135, 3103, 3149, 8204, 3112, 3142, 3128, 3149>>,
    \* Tamil (line 113)
       <<2950, 2992, 3019, 2965, 3021, 2965, 3007, 2991, 2990, 3021>>,
       <<2990, 2992, 3009, 2980, 3021, 2980, 3009, 2997, 2990, 2985, 3016>>,
       <<2975, 3006, 2965, 3021, 2975, 2992, 3021>>,
       <<2980, 2975, 3009, 2986, 3021, 2986, 3010, 2970, 3007>>,
       <<2990, 2992, 3009, 2980, 3021, 2980, 3009, 2997, 2990, 3021>>,
       <<2984, 3019, 2991, 3021>>, <<2970, 3007, 2965, 3007, 2970, 3021, 2970, 3016>>,
       <<2990, 2992, 3009, 2984, 3021, 2980, 3009>>,
    \* Hindi (line 115)
       <<2360, 2381, 2357, 2366, 2360, 2381, 2341, 2381, 2351>>,
       <<2309, 2360, 2381, 2346, 2340, 2366, 2354>>, <<2337, 2377, 2325, 2381, 2335, 2352>>,
       <<2325, 2379, 2357, 2367, 2337>>, <<2335, 2368, 2325, 2366>>,
       <<2330, 2367, 2325, 2367, 2340, 2381, 2360, 2366>>,
       <<2347, 2367, 2335, 2344, 2375, 2360>>, <<2348, 2368, 2350, 2366, 2352, 2368>>,
       <<2313, 2346, 2330, 2366, 2352>>, <<2342, 2357, 2366>>,
    \* Bengali (line 117)
       <<2488, 2509, 2476, 2494, 2488, 2509, 2469, 2509, 2479>>,
       <<2489, 2494, 2488, 2474, 2494, 2468, 2494, 2482>>,
       <<2465, 2494, 2453, 2509, 2468, 2494, 2480>>, <<2453, 2507, 2477, 2495, 2465>>,
       <<2463, 2495, 2453, 2494>>, <<2458, 2495, 2453, 2495, 2510, 2488, 2494>>,
       <<2475, 2495, 2463, 2472, 2503, 2488>>, <<2480, 2507, 2455>>,
       <<2458, 2495, 2453, 2495, 2510, 2488, 2494>>, <<2452, 2487, 2471>>,
    \* Gujarati (line 119)
       <<2744, 2765, 2741, 2750, 2744, 2765, 2725, 2765, 2735>>,
       <<2745, 2763, 2744, 2765, 2730, 2751, 2719, 2738>>,
       <<2721, 2761, 2709, 2765, 2719, 2736>>, <<2709, 2763, 2741, 2751, 2721>>,
       <<2741, 2759, 2709, 2765, 2744, 2751, 2728>>, <<2726, 2741, 2750>>,
       <<2731, 2751, 2719, 2728, 2759, 2744>>, <<2736, 2763, 2711>>,
       <<2697, 2730, 2714, 2750, 2736>>, <<2726, 2741, 2750>>,
    \* Marathi (line 121)
       <<2310, 2352, 2379, 2327, 2381, 2351>>, <<2342, 2357, 2366, 2326, 2366, 2344, 2366>>,
       <<2337, 2377, 2325, 2381, 2335, 2352>>, <<2325, 2379, 2357, 2367, 2337>>,
       <<2354, 2360>>, <<2357, 2376, 2342, 2381, 2351, 2325, 2368, 2351>>,
       <<2347, 2367, 2335, 2344, 2375, 2360>>, <<2352, 2379, 2327>>,
       <<2313, 2346, 2330, 2366, 2352>>, <<2324, 2359, 2343>> >>

\* dict.business
business ==
    \* English (line 125)
    << <<98, 117, 115, 105, 110, 101, 115, 115>>, <<109, 97, 114, 107, 101, 116>>,
       <<115, 116, 111, 99, 107>>, <<115, 104, 97, 114, 101>>,
       <<99, 111, 109, 112, 97, 110, 121>>, <<102, 105, 110, 97, 110, 99, 101>>,
       <<98, 97, 110, 107, 105, 110, 103>>, <<101, 99, 111, 110, 111, 109, 121>>,
       <<114, 101, 118, 101, 110, 117, 101>>, <<112, 114, 111, 102, 105, 116>>,
       <<115, 116, 97, 114, 116, 117, 112>>, <<102, 117, 110, 100, 105, 110, 103>>,
    \* Telugu (line 127)
       <<3125, 3149, 3119, 3134, 3114, 3134, 3120, 3074>>,
       <<3125, 3149, 3119, 3134, 3114, 3134, 3120>>,
       <<3125, 3149, 3119, 3134, 3114, 3134, 3120, 3125, 3143, 3108, 3149, 3108>>,
       <<3125, 3149, 3119, 3134, 3114, 3134, 3120, 3125, 3143, 3108, 3149, 3108, 3122, 3137>>,
       <<3118, 3134, 3120, 3149, 3093, 3142, 3103, 3149>>,
       <<3118, 3134, 3120, 3149, 3093, 3142, 3103, 3149, 3122, 3122, 3147>>,
       <<3128, 3149, 3103, 3134, 3093, 3149>>, <<3127, 3143, 3120, 3149>>,
       <<3127, 3143, 3120, 3149, 3122, 3137>>, <<3093, 3074, 3114, 3142, 3112, 3136>>,
       <<3115, 3144, 3112, 3134, 3112, 3149, 3128, 3149>>,
       <<3116, 3149, 3119, 3134, 3074, 3093, 3135, 3074, 3095, 3149>>,
       <<3078, 3120, 3149, 3109, 3135, 3093>>,
       <<3110, 3149, 3120, 3125, 3149, 3119, 3147, 3122, 3149, 3116, 3107, 3074>>,
       <<3078, 3110, 3134, 3119, 3074>>, <<3122, 3134, 3117, 3074>>,
       <<3112, 3127, 3149, 3103, 3074>>, <<3112, 3127, 3149, 3103, 3134, 3122, 3137>>,
    \* Tamil (line 129)
       <<2997, 2979, 3007, 2965, 2990, 3021>>, <<2970, 2984, 3021, 2980, 3016>>,
       <<2986, 2969, 3021, 2965, 3009>>, <<2984, 3007, 2993, 3009, 2997, 2985, 2990, 3021>>,
       <<2984, 3007, 2980, 3007>>, <<2997, 2969, 3021, 2965, 3007>>,
       <<2986, 3018, 2992, 3009, 2995, 3006, 2980, 3006, 2992, 2990, 3021>>,
       <<2997, 2992, 3009, 2997, 3006, 2991, 3021>>, <<2994, 3006, 2986, 2990, 3021>>,
       <<2984, 2999, 3021, 2975, 2990, 3021>>,
       <<2984, 3007, 2980, 3007, 2991, 3009, 2980, 2997, 3007>>,
    \* Hindi (line 131)
       <<2357, 2381, 2351, 2366, 2346, 2366, 2352>>, <<2348, 2366, 2332, 2366, 2352>>,
       <<2358, 2375, 2351, 2352>>, <<2325, 2306, 2346, 2344, 2368>>,
       <<2357, 2367, 2340, 2381, 2340>>, <<2348, 2376, 2306, 2325, 2367, 2306, 2327>>,
       <<2309, 2352, 2381, 2341, 2357, 2381, 2351, 2357, 2360, 2381, 2341, 2366>>,
       <<2352, 2366, 2332, 2360, 2381, 2357>>, <<2354, 2366, 2349>>,
       <<2360, 2381, 2335, 2366, 2352, 2381, 2335, 2309, 2346>>, <<2344, 2367, 2343, 2367>>,
    \* Bengali (line 133)
       <<2476, 2509, 2479, 2476, 2488, 2494>>, <<2476, 2494, 2460, 2494, 2480>>,
       <<2486, 2503, 2479, 2492, 2494, 2480>>,
       <<2453, 2507, 2478, 2509, 2474, 2494, 2472, 2495>>, <<2437, 2480, 2509, 2469>>,
       <<2476, 2509, 2479, 2494, 2434, 2453, 2495, 2434>>,
       <<2437, 2480, 2509, 2469, 2472, 2496, 2468, 2495>>,
       <<2480, 2494, 2460, 2488, 2509, 2476>>, <<2482, 2494, 2477>>,
       <<2488, 2509, 2463, 2494, 2480, 2509, 2463, 2438, 2474>>,
       <<2468, 2489, 2476, 2495, 2482>>,
    \* Gujarati (line 135)
       <<2741, 2765, 2735, 2741, 2744, 2750, 2735>>, <<2732, 2716, 2750, 2736>>,
       <<2742, 2759, 2736>>, <<2709, 2690, 2730, 2728, 2752>>,
       <<2731, 2750, 2695, 2728, 2750, 2728, 2765, 2744>>,
       <<2732, 2759, 2690, 2709, 2751, 2690, 2711>>,
       <<2693, 2736, 2765, 2725, 2724, 2690, 2724, 2765, 2736>>,
       <<2736, 2750, 2716, 2744, 2765, 2741>>, <<2738, 2750, 2733>>,
       <<2744, 2765, 2719, 2750, 2736, 2765, 2719, 2693, 2730>>,
       <<2731, 2690, 2721, 2751, 2690, 2711>>,
    \* Marathi (line 137)
       <<2357, 2381, 2351, 2357, 2360, 2366, 2351>>, <<2348, 2366, 2332, 2366, 2352>>,
       <<2358, 2375, 2309, 2352>>, <<2325, 2306, 2346, 2344, 2368>>,
       <<2357, 2367, 2340, 2381, 2340>>, <<2348, 2305, 2325, 2367, 2306, 2327>>,
       <<2309, 2352, 2381, 2341, 2357, 2381, 2351, 2357, 2360, 2381, 2341, 2366>>,
       <<2352, 2366, 2332, 2360, 2381, 2357>>, <<2344, 2347, 2366>>,
       <<2360, 2381, 2335, 2366, 2352, 2381, 2335, 2309, 2346>>, <<2344, 2367, 2343, 2368>> >>

\* dict.education
education ==
    \* English (line 141)
    << <<101, 100, 117, 99, 97, 116, 105, 111, 110>>, <<101, 120, 97, 109>>,
       <<114, 101, 115, 117, 108, 116, 115>>, <<115, 116, 117, 100, 101, 110, 116>>,
       <<115, 99, 104, 111, 111, 108>>, <<99, 111, 108, 108, 101, 103, 101>>,
       <<117, 110, 105, 118, 101, 114, 115, 105, 116, 121>>,
       <<97, 100, 109, 105, 115, 115, 105, 111, 110>>,
       <<115, 99, 104, 111, 108, 97, 114, 115, 104, 105, 112>>,
    \* Telugu (line 143)
       <<3125, 3135, 3110, 3149, 3119>>, <<3114, 3120, 3136, 3093, 3149, 3127>>,
       <<3115, 3122, 3135, 3108, 3134, 3122, 3137>>,
       <<3125, 3135, 3110, 3149, 3119, 3134, 3120, 3149, 3109, 3135>>,
       <<3114, 3134, 3104, 3126, 3134, 3122>>, <<3093, 3123, 3134, 3126, 3134, 3122>>,
       <<3125, 3135, 3126, 3149, 3125, 3125, 3135, 3110, 3149, 3119, 3134, 3122, 3119, 3074>>,
       <<3110, 3134, 3094, 3122, 3134, 3122, 3137>>, <<3125, 3143, 3108, 3112, 3074>>,
    \* Tamil (line 145)
       <<2965, 2994, 3021, 2997, 3007>>, <<2980, 3015, 2992, 3021, 2997, 3009>>,
       <<2990, 3009, 2975, 3007, 2997, 3009, 2965, 2995, 3021>>,
       <<2990, 3006, 2979, 2997, 2992, 3021>>, <<2986, 2995, 3021, 2995, 3007>>,
       <<2965, 2994, 3021, 2994, 3010, 2992, 3007>>,
       <<2986, 2994, 3021, 2965, 2994, 3016, 2965, 3021, 2965, 2996, 2965, 2990, 3021>>,
       <<2970, 3015, 2992, 3021, 2965, 3021, 2965, 3016>>,
       <<2953, 2980, 2997, 3007, 2980, 3021, 2980, 3014, 3006, 2965, 3016>>,
    \* Hindi (line 147)
       <<2358, 2367, 2325, 2381, 2359, 2366>>, <<2346, 2352, 2368, 2325, 2381, 2359, 2366>>,
       <<2346, 2352, 2367, 2339, 2366, 2350>>, <<2331, 2366, 2340, 2381, 2352>>,
       <<2360, 2381, 2325, 2370, 2354>>, <<2325, 2377, 2354, 2375, 2332>>,
       <<2357, 2367, 2358, 2381, 2357, 2357, 2367, 2342, 2381, 2351, 2366, 2354, 2351>>,
       <<2346, 2381, 2352, 2357, 2375, 2358>>,
       <<2331, 2366, 2340, 2381, 2352, 2357, 2371, 2340, 2381, 2340, 2367>>,
    \* Bengali (line 149)
       <<2486, 2495, 2453, 2509, 2487, 2494>>, <<2474, 2480, 2496, 2453, 2509, 2487, 2494>>,
       <<2475, 2482, 2494, 2475, 2482>>, <<2459, 2494, 2468, 2509, 2480>>,
       <<2488, 2509, 2453, 2497, 2482>>, <<2453, 2482, 2503, 2460>>,
       <<2476, 2495, 2486, 2509, 2476, 2476, 2495, 2470, 2509, 2479, 2494, 2482, 2479, 2492>>,
       <<2477, 2480, 2509, 2468, 2495>>, <<2476, 2499, 2468, 2509, 2468, 2495>>,
    \* Gujarati (line 151)
       <<2742, 2751, 2709, 2765, 2743, 2723>>, <<2730, 2736, 2752, 2709, 2765, 2743, 2750>>,
       <<2730, 2736, 2751, 2723, 2750, 2734>>,
       <<2741, 2751, 2726, 2765, 2735, 2750, 2736, 2765, 2725, 2752>>,
       <<2742, 2750, 2739, 2750>>, <<2709, 2763, 2738, 2759, 2716>>,
       <<2735, 2753, 2728, 2751, 2741, 2736, 2765, 2744, 2751, 2719, 2752>>,
       <<2730, 2765, 2736, 2741, 2759, 2742>>,
       <<2715, 2750, 2724, 2765, 2736, 2741, 2755, 2724, 2765, 2724, 2751>>,
    \* Marathi (line 153)
       <<2358, 2367, 2325, 2381, 2359, 2339>>, <<2346, 2352, 2368, 2325, 2381, 2359, 2366>>,
       <<2344, 2367, 2325, 2366, 2354>>,
       <<2357, 2367, 2342, 2381, 2351, 2366, 2352, 2381, 2341, 2368>>,
       <<2358, 2366, 2355, 2366>>, <<2325, 2377, 2354, 2375, 2332>>,
       <<2357, 2367, 2358, 2381, 2357, 2357, 2367, 2342, 2381, 2351, 2366, 2354, 2351>>,
       <<2346, 2381, 2352, 2357, 2375, 2358>>,
       <<2358, 2367, 2359, 2381, 2351, 2357, 2371, 2340, 2381, 2340, 2368>> >>

\* dict.crime
crime ==
    \* English (line 157)
    << <<99, 114, 105, 109, 101>>, <<112, 111, 108, 105, 99, 101>>,
       <<109, 117, 114, 100, 101, 114>>, <<116, 104, 101, 102, 116>>,
       <<114, 111, 98, 98, 101, 114, 121>>, <<115, 99, 97, 109>>, <<102, 114, 97, 117, 100>>,
       <<97, 114, 114, 101, 115, 116>>, <<97, 115, 115, 97, 117, 108, 116>>,
       <<118, 105, 111, 108, 101, 110, 99, 101>>,
    \* Telugu (line 159)
       <<3093, 3149, 3120, 3144, 3118, 3149>>, <<3112, 3143, 3120, 3074>>,
       <<3112, 3143, 3120, 3134, 3122, 3137>>, <<3114, 3147, 3122, 3136, 3128, 3137>>,
       <<3129, 3108, 3149, 3119>>, <<3129, 3108, 3149, 3119, 3122, 3137>>,
       <<3110, 3146, 3074, 3095, 3108, 3112, 3074>>,
       <<3110, 3146, 3074, 3095, 3108, 3112, 3134, 3122, 3137>>,
       <<3110, 3146, 3074, 3095, 3122, 3137>>, <<3110, 3147, 3114, 3135, 3105, 3136>>,
       <<3118, 3147, 3128, 3074>>, <<3077, 3120, 3142, 3128, 3149, 3103, 3149>>,
       <<3077, 3120, 3142, 3128, 3149, 3103, 3137>>, <<3093, 3147, 3120, 3149, 3103, 3137>>,
       <<3093, 3147, 3120, 3149, 3103, 3137, 3122, 3147>>, <<3110, 3134, 3105, 3135>>,
       <<3129, 3135, 3074, 3128>>, <<3112, 3143, 3120, 3128, 3149, 3109, 3137, 3105, 3137>>,
       <<3112, 3143, 3120, 3128, 3149, 3109, 3137, 3122, 3137>>,
    \* Tamil (line 161)
       <<2965, 3009, 2993, 3021, 2993, 2990, 3021>>,
       <<2965, 3006, 2997, 2994, 3021, 2980, 3009, 2993, 3016>>, <<2965, 3018, 2994, 3016>>,
       <<2980, 3007, 2992, 3009, 2975, 3021, 2975, 3009>>,
       <<2965, 3018, 2995, 3021, 2995, 3016>>, <<2990, 3019, 2970, 2975, 3007>>,
       <<2965, 3016, 2980, 3009>>, <<2980, 3006, 2965, 3021, 2965, 3009, 2980, 2994, 3021>>,
       <<2997, 2985, 3021, 2990, 3009, 2993, 3016>>,
    \* Hindi (line 163)
       <<2309, 2346, 2352, 2366, 2343>>, <<2346, 2369, 2354, 2367, 2360>>,
       <<2361, 2340, 2381, 2351, 2366>>, <<2330, 2379, 2352, 2368>>,
       <<2337, 2325, 2376, 2340, 2368>>, <<2328, 2379, 2335, 2366, 2354, 2366>>,
       <<2343, 2379, 2326, 2366, 2343, 2337, 2364, 2368>>,
       <<2327, 2367, 2352, 2347, 2381, 2340, 2366, 2352, 2368>>, <<2361, 2350, 2354, 2366>>,
       <<2361, 2367, 2306, 2360, 2366>>,
    \* Bengali (line 165)
       <<2437, 2474, 2480, 2494, 2471>>, <<2474, 2497, 2482, 2495, 2486>>,
       <<2454, 2497, 2472>>, <<2458, 2497, 2480, 2495>>,
       <<2465, 2494, 2453, 2494, 2468, 2495>>,
       <<2453, 2503, 2482, 2503, 2457, 2509, 2453, 2494, 2480, 2495>>,
       <<2460, 2494, 2482, 2495, 2479, 2492, 2494, 2468, 2495>>,
       <<2455, 2509, 2480, 2503, 2475, 2468, 2494, 2480>>,
       <<2438, 2453, 2509, 2480, 2478, 2467>>, <<2488, 2489, 2495, 2434, 2488, 2468, 2494>>,
    \* Gujarati (line 167)
       <<2693, 2730, 2736, 2750, 2727>>, <<2730, 2763, 2738, 2752, 2744>>,
       <<2745, 2724, 2765, 2735, 2750>>, <<2714, 2763, 2736, 2752>>,
       <<2721, 2709, 2750, 2696>>, <<2712, 2763, 2719, 2750, 2738, 2763>>,
       <<2727, 2763, 2709, 2750, 2727, 2721, 2752>>,
       <<2711, 2751, 2736, 2731, 2724, 2750, 2736, 2752>>, <<2745, 2753, 2734, 2738, 2763>>,
       <<2745, 2751, 2690, 2744, 2750>>,
    \* Marathi (line 169)
       <<2327, 2369, 2344, 2381, 2361, 2366>>, <<2346, 2379, 2354, 2367, 2360>>,
       <<2326, 2370, 2344>>, <<2330, 2379, 2352, 2368>>, <<2342, 2352, 2379, 2337, 2366>>,
       <<2328, 2379, 2335, 2366, 2355, 2366>>, <<2347, 2360, 2357, 2339, 2370, 2325>>,
       <<2309, 2335, 2325>>, <<2361, 2354, 2381, 2354, 2366>>, <<2361, 2367, 2306, 2360, 2366>> >>

\* Object.entries(dict): the categories with their keywords, in insertion order
dict ==
    << <<"politics", politics>>,
       <<"sports", sports>>,
       <<"entertainment", entertainment>>,
       <<"technology", technology>>,
       <<"health", health>>,
       <<"business", business>>,
       <<"education", education>>,
       <<"crime", crime>> >>

\* the call is entered: the text is normalized, the language is resolved
EnterCompute(title, summary, content, language) ==
    [ pc |-> "scoring", title |-> title, summary |-> summary, content |-> content,
      language |-> language,
      text |-> normalize(title \o <<32>> \o summary \o <<32>> \o content),
      lang |-> normalizedLang(language),
      n |-> 0, best |-> "general", bestScore |-> 0, result |-> "" ]

\* if (score > bestScore)
Better_orEqual(score, bestScore) == score >= bestScore

Better(score, bestScore) == score > bestScore

\* one iteration of the loop over Object.entries(dict)
ScoreNext(f) ==
    LET cat == dict[f.n + 1][1]
        score == Score(dict[f.n + 1][2], f.lang, f.text)
    IN [f EXCEPT !.n = @ + 1,
                 !.best = IF Better(score, f.bestScore) THEN cat ELSE @,
                 !.bestScore = IF Better(score, f.bestScore) THEN score ELSE @]

\* return bestScore > 0 ? best : 'general'
ReturnBest(f) ==
    [f EXCEPT !.pc = "returned", !.result = IF f.bestScore > 0 THEN f.best ELSE "general"]

RECURSIVE ScoreAll(_)
ScoreAll(f) == IF f.n = Len(dict) THEN f ELSE ScoreAll(ScoreNext(f))

computeCategoryFromText(title, summary, content, language) ==
    ReturnBest(ScoreAll(EnterCompute(title, summary, content, language))).result

\* the variables of the scraping service
serviceVars == <<now, fetchVars, store, lastScraped, sourceDocs, run, runNo, obs,
                 abandoned, pipe, scrape>>

CallComputeCategory ==
    /\ cls.pc = "idle"
    /\ cls' = EnterCompute(cls.title, cls.summary, cls.content, cls.language)
    /\ UNCHANGED <<serviceVars, categories, script, rotVars, lastScrapeStatus, editVars>>

ScoreCategory ==
    /\ cls.pc = "scoring"
    /\ cls.n < Len(dict)
    /\ cls' = ScoreNext(cls)
    /\ UNCHANGED <<serviceVars, categories, script, rotVars, lastScrapeStatus, editVars>>

ReturnCategory ==
    /\ cls.pc = "scoring"
    /\ cls.n = Len(dict)
    /\ cls' = ReturnBest(cls)
    /\ UNCHANGED <<serviceVars, categories, script, rotVars, lastScrapeStatus, editVars>>

\* Telugu texts: "cricket match", "game", "results", "cricket election";
\* a Hindi text: "election"
TeluguCricketMatch ==
    <<3093, 3149, 3120, 3135, 3093, 3142, 3103, 3149, 32, 3118, 3149, 3119, 3134, 3098, 3149>>

TeluguGame == <<3078, 3103>>

TeluguResults == <<3115, 3122, 3135, 3108, 3134, 3122, 3137>>

TeluguCricketElection ==
    <<3093, 3149, 3120, 3135, 3093, 3142, 3103, 3149, 32,
      101, 108, 101, 99, 116, 105, 111, 110>>

HindiElection == <<2330, 2369, 2344, 2366, 2357>>

\* the titles, summaries and languages of the items classified
Titles ==
    { Utf16("Cricket match: India wins!"), Utf16("startup"), Utf16("Nice weather today"),
      Utf16("Quiet morning"), Utf16("AI robot"),
      TeluguCricketMatch, TeluguGame, TeluguResults, TeluguCricketElection, HindiElection }

Summaries == { <<>>, Utf16("election") }

Languages == { "te", "TE", "hi", "mr", "en", "kn", "" }

IdleCompute(title, summary, content, language) ==
    [ pc |-> "idle", title |-> title, summary |-> summary, content |-> content,
      language |-> language, text |-> <<>>, lang |-> <<>>,
      n |-> 0, best |-> "general", bestScore |-> 0, result |-> "" ]

InitClassify ==
    /\ now = StartTime
    /\ lastRequestTime = 0
    /\ call = <<>>
    /\ dispatched = <<>>
    /\ StoresIdle
    /\ ScriptIdle
    /\ RotationIdle
    /\ lastScrapeStatus = <<>>
    /\ EditIdle
    /\ \E title \in Titles, summary \in Summaries, language \in Languages :
          cls = IdleCompute(title, summary, <<>>, language)

NextClassify ==
    \/ CallComputeCategory
    \/ ScoreCategory
    \/ ReturnCategory

SpecClassify == InitClassify /\ [][NextClassify]_vars

----------------------------------------------------------------------------
(* Claims about the classifier                                             *)

\* the score of the n-th category for the text and the language of the call
ScoreOf(n) == Score(dict[n][2], cls.lang, cls.text)

TopScore(n) == CHOOSE top \in {ScoreOf(m) : m \in 1..n} : \A m \in 1..n : ScoreOf(m) <= top

(* C22: the category returned is the first, in the order of the dictionary, *)
(* of the categories with the highest score, or 'general' when every       *)
(* category scores zero; during the loop, best and bestScore are those of  *)
(* the categories evaluated so far.                                        *)
C22_HighestScoreFirstWins ==
    /\ (cls.pc \in {"scoring", "returned"} /\ cls.n > 0) =>
          /\ cls.bestScore = TopScore(cls.n)
          /\ cls.bestScore > 0 =>
                \E m \in 1..cls.n : /\ dict[m][1] = cls.best
                                    /\ ScoreOf(m) = cls.bestScore
                                    /\ \A l \in 1..(m - 1) : ScoreOf(l) < cls.bestScore
    /\ cls.pc = "returned" =>
          /\ cls.n = Len(dict)
          /\ cls.result = IF TopScore(Len(dict)) = 0 THEN "general" ELSE cls.best

C22_Witness ==
    /\ cls.pc = "returned"
    /\ cls.title = Utf16("startup")
    /\ cls.summary = <<>>
    /\ cls.language = "en"
    /\ ScoreOf(4) = 1
    /\ ScoreOf(6) = 1
    /\ TopScore(Len(dict)) = 1
    /\ cls.result = "technology"

\* the block of the script of a language, with the letters of English
ScriptUnits(lang) ==
    CASE lang = Chars("telugu") -> 3072..3199
      [] lang = Chars("hindi") -> 2304..2431
      [] lang = Chars("marathi") -> 2304..2431
      [] lang = Chars("tamil") -> 2944..3071
      [] lang = Chars("bengali") -> 2432..2559
      [] lang = Chars("gujarati") -> 2688..2815
      [] lang = Chars("english") -> (65..90) \cup (97..122)

KnownLanguages ==
    {Chars(l) : l \in {"telugu", "hindi", "marathi", "tamil", "bengali", "gujarati", "english"}}

\* the keyword is written in the script: all its letters are
WrittenIn(word, lang) ==
    \A i \in 1..Len(word) : word[i] \in ScriptUnits(lang) \cup {32} \cup ZeroWidth

\* the words of a normalized text
RECURSIVE Words(_)
Words(text) ==
    IF text = <<>> THEN {}
    ELSE IF \E i \in 1..Len(text) : text[i] = 32
         THEN LET i == CHOOSE j \in 1..Len(text) :
                           text[j] = 32 /\ \A l \in 1..(j - 1) : text[l] # 32
              IN {SubSeq(text, 1, i - 1)} \cup Words(SubSeq(text, i + 1, Len(text)))
         ELSE {text}

\* the Telugu keywords of sports
TeluguSportsWords ==
    {normalize(sports[i]) : i \in {j \in 1..Len(sports) : WrittenIn(sports[j], Chars("telugu"))}}

(* C23 (as claimed): for a language with a known script the keywords that  *)
(* are eligible are written in that script, for an unrecognized language   *)
(* code every keyword is eligible; a text of Telugu sports keywords        *)
(* declared as Telugu classifies as sports, and an English text without a  *)
(* match in any category classifies as 'general'.                          *)
C23_ScriptScoped ==
    cls.pc = "returned" =>
        /\ cls.lang \in KnownLanguages =>
              \A n \in 1..Len(dict) : \A i \in 1..Len(dict[n][2]) :
                  IsLangWord(cls.lang, dict[n][2][i]) => WrittenIn(dict[n][2][i], cls.lang)
        /\ cls.lang \notin KnownLanguages =>
              \A n \in 1..Len(dict) : \A i \in 1..Len(dict[n][2]) :
                  IsLangWord(cls.lang, dict[n][2][i])
        /\ (cls.lang = Chars("telugu") /\ cls.text # <<>>
              /\ Words(cls.text) \subseteq TeluguSportsWords) => cls.result = "sports"
        /\ (cls.lang = Chars("english") /\ \A n \in 1..Len(dict) : ScoreOf(n) = 0)
              => cls.result = "general"

----------------------------------------------------------------------------
(* scrape() of scripts/runScraper.ts: the sources are scraped one after    *)
(* the other; each item of a feed is fetched, looked up by its hash,       *)
(* classified, possibly promoted to a dynamic category, and saved.         *)

\* number of calls of scrape() made one after the other
MaxScriptRuns == 2

\* number of failures (network, store) injected in the script
MaxScriptFaults == 2

\* articleCount >= 10
PromotionThreshold == 10

\* content = $("p").text().trim().slice(0, 5000)
ContentLimit == 5000

\* a Category document without the optional field `language`
NoLanguage == "(no language)"

\* a || b on strings: the empty string is falsy
OrElse(a, b) == IF a # <<>> THEN a ELSE b

\* the code units of the titles and snippets served by the feeds: two
\* Telugu titles ("technology", "mobile"), the other texts are ASCII
Units(text) ==
    CASE text = "Tech te 1" -> <<3103, 3142, 3093, 3149, 3112, 3134, 3122, 3100, 3136>>
      [] text = "Tech te 2" -> <<3118, 3146, 3116, 3144, 3122, 3149>>
      [] OTHER -> Utf16(text)

\* $("p").text() of the page of a link
ParagraphText(link) ==
    CASE link = "L-te1" -> <<32>> \o Units("Tech te 2") \o <<32>>
      [] link \in {"L-en1", "L3"} -> Utf16("startup")
      [] OTHER -> <<>>

\* crypto.createHash("md5").update(input).digest("hex")
generateHash_md5(input) == <<"md5", input>>

\* title.toLowerCase().replace(/[^a-z0-9]+/g, "-").replace(/(^-|-$)/g, "")
\* + "-" + Date.now()
ScriptSlug(title, t) ==
    (IF title \in {"Tech te 1", "Tech te 2"} THEN "" ELSE slugify(title)) \o "-" \o ToString(t)

categoryLabels ==
    [ general |-> "General", politics |-> "Politics", sports |-> "Sports",
      entertainment |-> "Entertainment", technology |-> "Technology", health |-> "Health",
      business |-> "Business", education |-> "Education", crime |-> "Crime",
      weather |-> "Weather", science |-> "Science", travel |-> "Travel", food |-> "Food",
      fashion |-> "Fashion", automobile |-> "Automobile", realestate |-> "Real Estate" ]

\* the document Category.create makes of the fields passed, with the
\* defaults of the schema (isDynamic: false, no language)
FallbackCategory ==
    [ key |-> "uncategorized", label |-> "Uncategorized", order |-> 999, active |-> TRUE,
      language |-> NoLanguage, isDynamic |-> FALSE ]

DynamicCategory(detectedCategory, language) ==
    [ key |-> detectedCategory, label |-> categoryLabels[detectedCategory], order |-> 100,
      active |-> TRUE, language |-> language, isDynamic |-> TRUE ]

\* a category made on the admin surface
AdminCategory(key, language) ==
    [ key |-> key, label |-> categoryLabels[key], order |-> 1, active |-> TRUE,
      language |-> language, isDynamic |-> FALSE ]

\* key: { unique: true }: Category.create refuses a document whose key is
\* the key of a persisted category, whatever the languages
DuplicateCategoryKey(cats, doc) == \E c \in cats : c.key = doc.key

\* Category.findOne({ key, $or: [{ language }, { language: { $exists: false } }] })
existingCategory(cats, detectedCategory, language) ==
    {c \in cats : c.key = detectedCategory /\ c.language \in {language, NoLanguage}}

\* Article.countDocuments({ language, $or: [{ categories: detectedCategory },
\*                                          { categoryDetected: detectedCategory }] })
countDocuments(st, language, detectedCategory) ==
    Cardinality({a \in st : /\ a.language = language
                            /\ \/ detectedCategory \in SeqToSet(a.categories)
                               \/ a.categoryDetected = detectedCategory})

\* resolveCategoryId(raw, null) for a list of names: the first name that is
\* the key or the label of a persisted category (compared without case)
RECURSIVE resolveCategoryId(_, _, _)
resolveCategoryId(cats, raw, fallbackId) ==
    IF raw = <<>> THEN fallbackId
    ELSE LET name == toLowerCase(Chars(Head(raw)))
             found == {c \in cats : \/ toLowerCase(Chars(c.key)) = name
                                    \/ toLowerCase(Chars(c.label)) = name}
         IN IF found # {} THEN (CHOOSE c \in found : TRUE).key
            ELSE resolveCategoryId(cats, Tail(raw), fallbackId)

\* the sources of the script: a Telugu source and an English source
TeluguSource == NumSources + 4

EnglishSource == NumSources + 5

ScriptSourceIds == {TeluguSource, EnglishSource}

\* source.lang || "en"
LangOf(source) == IF source.lang # "" THEN source.lang ELSE "en"

\* Source.find({ active: true }): the documents, in the order of their ids
RECURSIVE InOrder(_, _)
InOrder(docs, ids) ==
    IF ids = {} THEN <<>>
    ELSE LET first == CHOOSE s \in ids : \A t \in ids : s <= t
         IN <<docs[first]>> \o InOrder(docs, ids \ {first})

ActiveSources(docs) == InOrder(docs, {s \in DOMAIN docs : docs[s].active})

IdleScript ==
    [ pc |-> "idle", runs |-> 0, faults |-> 0, fatal |-> FALSE, fallbackId |-> "",
      sources |-> <<>>, s |-> 0, f |-> 0, items |-> <<>>, i |-> 0,
      content |-> <<>>, hash |-> <<>>, categoryId |-> "", detectedCategory |-> "",
      existingCategory |-> Null, articleCount |-> 0, totalSaved |-> 0 ]

\* the script may meet one more failure
ScriptCanFail == script.faults < MaxScriptFaults

Failed(sc) == [sc EXCEPT !.faults = @ + 1]

\* the for loops over the sources and their rssUrls: the feed at (s, f) is
\* read next, or scrape() returns
RECURSIVE BeginScriptFeed(_, _, _)
BeginScriptFeed(sc, s, f) ==
    IF s > Len(sc.sources) THEN [sc EXCEPT !.pc = "done", !.s = s, !.f = 0, !.items = <<>>, !.i = 0]
    ELSE IF f > Len(sc.sources[s].rssUrls) THEN BeginScriptFeed(sc, s + 1, 1)
         ELSE [sc EXCEPT !.pc = "feed", !.s = s, !.f = f, !.items = <<>>, !.i = 0]

\* the for loop over feed.items: the item at i is taken up, or the next feed
BeginScriptItem(sc, i) ==
    IF i > Len(sc.items) THEN BeginScriptFeed(sc, sc.s, sc.f + 1)
    ELSE [sc EXCEPT !.pc = "body", !.i = i, !.content = <<>>, !.hash = <<>>,
                    !.categoryId = "", !.detectedCategory = "",
                    !.existingCategory = Null, !.articleCount = 0]

CurrentScriptSource == script.sources[script.s]

CurrentScriptItem == script.items[script.i]

\* scrape() is called: connectDB
CallScrape ==
    /\ script.pc \in {"idle", "done"}
    /\ script.runs < MaxScriptRuns
    /\ script' = [IdleScript EXCEPT !.pc = "ensure", !.runs = script.runs + 1,
                                    !.faults = script.faults]
    /\ UNCHANGED <<serviceVars, cls, categories, rotVars, lastScrapeStatus, editVars>>

\* ensureFallbackCategory: the category `uncategorized` is found or created
EnsureFallbackCategory ==
    /\ script.pc = "ensure"
    /\ categories' = IF \E c \in categories : c.key = "uncategorized" THEN categories
                     ELSE categories \cup {FallbackCategory}
    /\ script' = [script EXCEPT !.pc = "find", !.fallbackId = "uncategorized"]
    /\ UNCHANGED <<serviceVars, cls, rotVars, lastScrapeStatus, editVars>>

\* Source.find({ active: true }) settles; a failure rejects scrape()
FindScriptSources ==
    /\ script.pc = "find"
    /\ \E ok \in BOOLEAN :
          IF ok
          THEN script' = BeginScriptFeed([script EXCEPT !.sources = ActiveSources(sourceDocs)], 1, 1)
          ELSE /\ ScriptCanFail
               /\ script' = Failed([script EXCEPT !.pc = "done", !.fatal = TRUE])
    /\ UNCHANGED <<serviceVars, cls, categories, rotVars, lastScrapeStatus, editVars>>

\* parser.parseURL and its fallbacks settle: the items of the feed, or no
\* item after all attempts
ReadFeed ==
    /\ script.pc = "feed"
    /\ \E ok \in BOOLEAN :
          LET items == FeedItems(CurrentScriptSource.rssUrls[script.f])
          IN IF ok /\ items # <<>>
             THEN script' = BeginScriptItem([script EXCEPT !.items = items], 1)
             ELSE /\ ok \/ ScriptCanFail
                  /\ script' = BeginScriptFeed(IF ok THEN script ELSE Failed(script),
                                         script.s, script.f + 1)
    /\ UNCHANGED <<serviceVars, cls, categories, rotVars, lastScrapeStatus, editVars>>

\* fetchWithFallback(item.link) settles: the text of the paragraphs, or
\* the snippet of the feed when the fetch fails; the hash is computed
FetchBody ==
    /\ script.pc = "body"
    /\ \E ok \in BOOLEAN :
          LET snippet == Units(CurrentScriptItem.summary)
              text == Trim(ParagraphText(CurrentScriptItem.link))
              hash == generateHash_md5(IF CurrentScriptItem.link # "" THEN CurrentScriptItem.link
                                       ELSE CurrentScriptItem.title)
          IN IF CurrentScriptItem.link = ""
             THEN /\ ok
                  /\ script' = [script EXCEPT !.pc = "lookup", !.content = snippet, !.hash = hash]
             ELSE IF ok
                  THEN script' = [script EXCEPT !.pc = "lookup", !.hash = hash,
                                     !.content = SubSeq(text, 1, Min(ContentLimit, Len(text)))]
                  ELSE /\ ScriptCanFail
                       /\ script' = Failed([script EXCEPT !.pc = "lookup", !.content = snippet,
                                                          !.hash = hash])
    /\ UNCHANGED <<serviceVars, cls, categories, rotVars, lastScrapeStatus, editVars>>

\* Article.findOne({ hash }) settles: a known item is skipped
FindByHash ==
    /\ script.pc = "lookup"
    /\ script' = IF \E a \in store : a.hash = script.hash
                 THEN BeginScriptItem(script, script.i + 1)
                 ELSE [script EXCEPT !.pc = "resolve"]
    /\ UNCHANGED <<serviceVars, cls, categories, rotVars, lastScrapeStatus, editVars>>

\* the arguments of computeCategoryFromText for the item
DetectedCategory(item, content, source) ==
    computeCategoryFromText(OrElse(Units(item.title), Utf16("Untitled")),
                            OrElse(Units(item.summary), OrElse(content, Utf16("No summary"))),
                            OrElse(content, OrElse(Units(item.summary),
                                OrElse(Units(item.title), Utf16("No content available")))),
                            LangOf(source))

\* resolveCategoryId settles for the categories of the source, with the
\* fallback; the category is detected from the text
ResolveCategory ==
    /\ script.pc = "resolve"
    /\ \E detected \in {DetectedCategory(CurrentScriptItem, script.content, CurrentScriptSource)} :
          script' = [script EXCEPT
                        !.pc = IF detected \in {"general", "uncategorized"} THEN "save"
                               ELSE "promote",
                        !.categoryId = resolveCategoryId(categories, CurrentScriptSource.categories,
                                                         script.fallbackId),
                        !.detectedCategory = detected]
    /\ UNCHANGED <<serviceVars, cls, categories, rotVars, lastScrapeStatus, editVars>>

\* createDynamicCategory: Category.findOne settles
FindCategory ==
    /\ script.pc = "promote"
    /\ LET found == existingCategory(categories, script.detectedCategory,
                                     LangOf(CurrentScriptSource))
       IN script' = IF found # {}
                    THEN [script EXCEPT !.pc = "save", !.categoryId = script.detectedCategory,
                                        !.existingCategory = CHOOSE c \in found : TRUE]
                    ELSE [script EXCEPT !.pc = "count"]
    /\ UNCHANGED <<serviceVars, cls, categories, rotVars, lastScrapeStatus, editVars>>

\* createDynamicCategory: Article.countDocuments settles
CountArticles ==
    /\ script.pc = "count"
    /\ \E articleCount \in {countDocuments(store, LangOf(CurrentScriptSource),
                                           script.detectedCategory)} :
          script' = [script EXCEPT !.articleCount = articleCount,
                                   !.pc = IF articleCount >= PromotionThreshold THEN "create"
                                          ELSE "save"]
    /\ UNCHANGED <<serviceVars, cls, categories, rotVars, lastScrapeStatus, editVars>>

\* createDynamicCategory: Category.create settles; a refused document
\* (duplicate key) throws into the catch of the item, which is not saved
CreateCategory ==
    /\ script.pc = "create"
    /\ LET doc == DynamicCategory(script.detectedCategory, LangOf(CurrentScriptSource))
       IN IF DuplicateCategoryKey(categories, doc)
          THEN /\ categories' = categories
               /\ script' = BeginScriptItem(script, script.i + 1)
          ELSE /\ categories' = categories \cup {doc}
               /\ script' = [script EXCEPT !.pc = "save", !.categoryId = doc.key]
    /\ UNCHANGED <<serviceVars, cls, rotVars, lastScrapeStatus, editVars>>

\* the document of new Article({...})
ArticleDoc ==
    [ title |-> IF CurrentScriptItem.title # "" THEN CurrentScriptItem.title ELSE "Untitled",
      slug |-> ScriptSlug(IF CurrentScriptItem.title # "" THEN CurrentScriptItem.title ELSE "untitled", now),
      canonicalUrl |-> CurrentScriptItem.link,
      hash |-> script.hash,
      status |-> "scraped",
      language |-> LangOf(CurrentScriptSource),
      category |-> script.categoryId,
      categories |-> CurrentScriptSource.categories,
      categoryDetected |-> script.detectedCategory ]

\* articleDoc.save() settles: the article is persisted and counted, or the
\* save fails and the catch of the item skips it
SaveArticle ==
    /\ script.pc = "save"
    /\ \E ok \in BOOLEAN :
          IF ok
          THEN /\ store' = store \cup {ArticleDoc}
               /\ script' = BeginScriptItem([script EXCEPT !.totalSaved = @ + 1], script.i + 1)
          ELSE /\ ScriptCanFail
               /\ store' = store
               /\ script' = BeginScriptItem(Failed(script), script.i + 1)
    /\ UNCHANGED <<now, fetchVars, lastScraped, sourceDocs, run, runNo, obs, abandoned, pipe,
                   scrape, cls, categories, rotVars, lastScrapeStatus, editVars>>

\* an article persisted before the script runs, tagged with a key: the
\* first by the categories of its source, the others by detection
OldArticle(n, language, key) ==
    [ title |-> "Old " \o language \o ToString(n),
      slug |-> "old-" \o language \o ToString(n),
      canonicalUrl |-> "L-old-" \o language \o ToString(n),
      hash |-> generateHash_md5("L-old-" \o language \o ToString(n)),
      status |-> "scraped",
      language |-> language,
      category |-> "uncategorized",
      categories |-> IF n = 1 THEN <<key>> ELSE <<>>,
      categoryDetected |-> IF n = 1 THEN "general" ELSE key ]

Tagged(k, language, key) == {OldArticle(n, language, key) : n \in 1..k}

\* the numbers of Telugu articles tagged `technology` before the script runs
ExistingCounts == {PromotionThreshold - 2, PromotionThreshold - 1, PromotionThreshold}

\* the categories persisted before the script runs
CategorySets ==
    { {},
      {FallbackCategory},
      {FallbackCategory, AdminCategory("technology", "te")},
      {FallbackCategory, AdminCategory("technology", NoLanguage)},
      {FallbackCategory, AdminCategory("technology", "en")} }

InitScript ==
    /\ now = StartTime
    /\ lastRequestTime = 0
    /\ call = <<>>
    /\ dispatched = <<>>
    /\ sourceDocs = [s \in ScriptSourceIds |-> SourceDoc(s)]
    /\ \E k \in ExistingCounts :
          store = Tagged(k, "te", "technology") \cup Tagged(PromotionThreshold, "hi", "technology")
    /\ lastScraped = <<>>
    /\ run = <<>>
    /\ runNo = 0
    /\ obs = <<>>
    /\ abandoned = {}
    /\ pipe = <<>>
    /\ scrape = <<>>
    /\ cls = <<>>
    /\ categories \in CategorySets
    /\ script = IdleScript
    /\ RotationIdle
    /\ lastScrapeStatus = <<>>
    /\ EditIdle

NextScript ==
    \/ CallScrape
    \/ EnsureFallbackCategory
    \/ FindScriptSources
    \/ ReadFeed
    \/ FetchBody
    \/ FindByHash
    \/ ResolveCategory
    \/ FindCategory
    \/ CountArticles
    \/ CreateCategory
    \/ SaveArticle

SpecScript == InitScript /\ [][NextScript]_vars

----------------------------------------------------------------------------
(* Claims about the promotion of a detected category                       *)

\* createDynamicCategory has returned for the item in hand, which it found
\* without persisted category of its key for its language
Classified ==
    /\ script.pc = "save"
    /\ script.detectedCategory \notin {"", "general", "uncategorized"}
    /\ script.existingCategory = Null

\* the persisted articles of the language of the item tagged with its key
TaggedBefore ==
    {a \in store : /\ a.language = LangOf(CurrentScriptSource)
                   /\ \/ script.detectedCategory \in SeqToSet(a.categories)
                      \/ a.categoryDetected = script.detectedCategory}

CategoryOfItem ==
    {c \in categories : /\ c.key = script.detectedCategory
                        /\ c.language = LangOf(CurrentScriptSource)}

(* C24 (as claimed): when an item is classified for whose detected key and *)
(* language no category was persisted, and 9 persisted articles of that    *)
(* language are tagged with the key, the category is persisted (marked     *)
(* isDynamic) when the classification ends; with 8 such articles no        *)
(* category of the key is persisted for the language.                      *)
C24_PromotedWithNineTagged ==
    Classified
        => /\ Cardinality(TaggedBefore) = PromotionThreshold - 1 =>
                 \E c \in CategoryOfItem : c.isDynamic
           /\ Cardinality(TaggedBefore) = PromotionThreshold - 2 => CategoryOfItem = {}

----------------------------------------------------------------------------
(* AdminController: triggerScrape starts a run of scrapeAllSources without *)
(* awaiting it and keeps the status of the last run in the static field    *)
(* lastScrapeStatus, which scrapeStatus returns.                           *)

\* { ...object, ...fields }
Spread(object, fields) ==
    [k \in DOMAIN object \cup DOMAIN fields |->
        IF k \in DOMAIN fields THEN fields[k] ELSE object[k]]

\* { finishedAt, articlesInserted: result.length }: a value without the
\* property `length` gives undefined, and a property that is undefined is
\* to res.json and to every reader a property that is absent
ThenFields(result, t) ==
    IF "length" \in DOMAIN result
    THEN [finishedAt |-> t, articlesInserted |-> result.length]
    ELSE [finishedAt |-> t]

\* { finishedAt, error: String(err?.message || err) }
CatchFields(err, t) == [finishedAt |-> t, error |-> err.error]

\* scrapeStatus: res.json({ success: true, data: AdminController.lastScrapeStatus })
scrapeStatus == lastScrapeStatus

\* the callbacks registered on the promise of the run have not run yet
ReactionPending ==
    /\ "startedAt" \in DOMAIN lastScrapeStatus
    /\ "finishedAt" \notin DOMAIN lastScrapeStatus

\* triggerScrape: the active sources are counted (0 when the listing
\* fails), the status is replaced, scrapeAllSources is called and its
\* promise is left to the callbacks
TriggerScrape ==
    /\ ~ReactionPending
    /\ CallScrapeAllSources
    /\ \E activeCount \in {NumSources, 0} :
          lastScrapeStatus' = [startedAt |-> now, activeSources |-> activeCount]
    /\ UNCHANGED <<classVars, rotVars, editVars>>

\* the promise of scrapeAllSources settles: .then or .catch runs
ScrapeSettled ==
    /\ run.pc = "done"
    /\ ReactionPending
    /\ lastScrapeStatus' =
          Spread(lastScrapeStatus,
                 IF run.outcome.settled = "resolved" THEN ThenFields(run.outcome.value, now)
                 ELSE CatchFields(run.outcome.value, now))
    /\ UNCHANGED <<now, fetchVars, store, lastScraped, sourceDocs, run, runNo, obs, abandoned,
                   pipe, scrape, classVars, rotVars, editVars>>

NextAdmin ==
    \/ TriggerScrape
    \/ ScrapeSettled
    \/ FindSources
    \/ \E s \in SourceIds : SettleSource(s)
    \/ BatchSettled
    \/ CheckUrl
    \/ SlugProbe
    \/ CreateArticle
    \/ UpdateSource
    \/ \E a \in abandoned : AbandonedSettles(a)

SpecAdmin == InitRun /\ [][NextAdmin]_vars

\* a triggered run has completed and its callback has run
RunReported ==
    /\ run.pc = "done"
    /\ "finishedAt" \in DOMAIN lastScrapeStatus

\* the listing of the active sources failed in the run
ListingFailed == Fault("find", 0) \in obs.log

(* C25 (as claimed): when the listing of the active sources failed, the    *)
(* run returns an empty result and the status returned after the run has   *)
(* a non-empty error field.                                                *)
C25_ListingFailureReported ==
    (RunReported /\ ListingFailed) =>
        /\ run.outcome.value.articles = <<>>
        /\ "error" \in DOMAIN scrapeStatus
        /\ scrapeStatus.error # ""

(* C26 (as claimed): after a triggered run has completed, articlesInserted *)
(* of the status is the number of articles the run inserted into the store *)
C26_InsertedCountReported ==
    RunReported =>
        /\ "articlesInserted" \in DOMAIN scrapeStatus
        /\ scrapeStatus.articlesInserted = obs.created

----------------------------------------------------------------------------
(* Claims about the statistics of a run                                    *)

\* the stats returned by the run that has ended
ReturnedStats == run.outcome.value.stats

\* the counters of the stats add up and perSource has one entry per source
StatsAddUp(stats) ==
    /\ stats.success + stats.failed = stats.sources
    /\ Len(stats.perSource) = Len(run.sources)
    /\ \A n \in 1..Len(run.sources) :
          Cardinality({m \in 1..Len(stats.perSource) :
                          stats.perSource[m].sourceId = Source(run.sources[n]).id}) = 1
    /\ stats.total.itemsSeen =
          SumSeq([n \in 1..Len(stats.perSource) |-> stats.perSource[n].itemsSeen])
    /\ stats.total.scrapedOk =
          SumSeq([n \in 1..Len(stats.perSource) |-> stats.perSource[n].scrapedOk])
    /\ stats.total.inserted =
          SumSeq([n \in 1..Len(stats.perSource) |-> stats.perSource[n].inserted])

----------------------------------------------------------------------------
(* The rotation of proxies and user agents.  The two indices are           *)
(* variables of the module src/lib/mongoose.ts: every ScrapingService      *)
(* instance of the process reads and advances the same indices.            *)

\* number of ScrapingService instances in the process
NumInstances == 2

\* number of axios instances created in one behaviour
MaxDraws == 10

Instances == 1..NumInstances

PROXY_LIST ==
    << [host |-> "8.8.8.8", port |-> 80, protocol |-> "http"],
       [host |-> "1.1.1.1", port |-> 80, protocol |-> "http"] >>

USER_AGENTS ==
    <<
       "Mozilla/5.0 (Windows NT 10.0; Win64; x64) AppleWebKit/537.36 (KHTML, like Gecko) Chrome/120.0.0.0 Safari/537.36",
       "Mozilla/5.0 (Macintosh; Intel Mac OS X 10_15_7) AppleWebKit/537.36 (KHTML, like Gecko) Chrome/120.0.0.0 Safari/537.36",
       "Mozilla/5.0 (X11; Linux x86_64) AppleWebKit/537.36 (KHTML, like Gecko) Chrome/120.0.0.0 Safari/537.36",
       "Mozilla/5.0 (Windows NT 10.0; Win64; x64; rv:109.0) Gecko/20100101 Firefox/121.0",
       "Mozilla/5.0 (Macintosh; Intel Mac OS X 10.15; rv:109.0) Gecko/20100101 Firefox/121.0",
       "Mozilla/5.0 (X11; Linux x86_64; rv:109.0) Gecko/20100101 Firefox/121.0",
       "Mozilla/5.0 (Macintosh; Intel Mac OS X 10_15_7) AppleWebKit/605.1.15 (KHTML, like Gecko) Version/17.1 Safari/605.1.15",
       "Mozilla/5.0 (Windows NT 10.0; Win64; x64) AppleWebKit/537.36 (KHTML, like Gecko) Edge/120.0.0.0 Safari/537.36" >>

\* (index + 1) % list.length
NextIndex_noWrap(index, list) == index + 1

NextIndex(index, list) == (index + 1) % Len(list)

\* getNextProxy: the proxy returned and the index left
getNextProxy(index) ==
    [proxy |-> PROXY_LIST[index + 1], index |-> NextIndex(index, PROXY_LIST)]

\* getNextUserAgent: the user agent returned and the index left
getNextUserAgent(index) ==
    [userAgent |-> USER_AGENTS[index + 1], index |-> NextIndex(index, USER_AGENTS)]

\* the values of useProxy the callers of createAxiosInstance pass (all of
\* them call it without argument)
UseProxyArgs == {FALSE}

\* the number of draws made in the process
Draws == SumSeq([inst \in Instances |-> Len(drawn[inst])])

\* this.createAxiosInstance(useProxy) of an instance: the next user agent
\* is drawn, and the next proxy when useProxy is set
CreateAxiosInstance(inst) ==
    /\ Draws < MaxDraws
    /\ \E useProxy \in UseProxyArgs :
          /\ drawn' = [drawn EXCEPT ![inst] =
                          Append(@, [userAgent |-> getNextUserAgent(currentUserAgentIndex).userAgent,
                                     order |-> Draws + 1])]
          /\ currentUserAgentIndex' = getNextUserAgent(currentUserAgentIndex).index
          /\ currentProxyIndex' = IF useProxy /\ Len(PROXY_LIST) > 0
                                  THEN getNextProxy(currentProxyIndex).index
                                  ELSE currentProxyIndex
    /\ UNCHANGED <<serviceVars, classVars, lastScrapeStatus, editVars>>

InitRotate ==
    /\ now = StartTime
    /\ lastRequestTime = 0
    /\ call = <<>>
    /\ dispatched = <<>>
    /\ StoresIdle
    /\ cls = <<>>
    /\ ScriptIdle
    /\ lastScrapeStatus = <<>>
    /\ EditIdle
    /\ currentProxyIndex = 0
    /\ currentUserAgentIndex = 0
    /\ drawn = [inst \in Instances |-> <<>>]

NextRotate == \E inst \in Instances : CreateAxiosInstance(inst)

SpecRotate == InitRotate /\ [][NextRotate]_vars

\* pool[(k - 1) mod n]
InPoolOrder(k) == USER_AGENTS[((k - 1) % Len(USER_AGENTS)) + 1]

IndicesValid ==
    /\ currentUserAgentIndex \in 0..(Len(USER_AGENTS) - 1)
    /\ currentProxyIndex \in 0..(Len(PROXY_LIST) - 1)

NextIdentity(inst) == getNextUserAgent(currentUserAgentIndex).userAgent

(* C29 (as claimed): a draw made by one instance does not change the       *)
(* identities another instance draws: the next identity of every other     *)
(* instance is the same before and after the draw.                         *)
C29_RotationPrivate ==
    [][\A inst \in Instances :
          Len(drawn'[inst]) > Len(drawn[inst]) =>
              \A other \in Instances \ {inst} : NextIdentity(other)' = NextIdentity(other)]_vars

----------------------------------------------------------------------------
(* The two pipelines over the same collections: scrape() of the script     *)
(* runs, then scrapeAllSources of the service runs, over the sources of    *)
(* the service.  The page of the item of feed3a is about startups, and     *)
(* enough English articles are tagged `technology` for the promotion.      *)
(* The script and the service each meet at most one failure.               *)

\* the categories persisted before the pipelines run
PipelineCategorySets ==
    { {}, {FallbackCategory, AdminCategory("sports", "te")} }

InitPipeline ==
    /\ now = StartTime
    /\ lastRequestTime = 0
    /\ call = <<>>
    /\ dispatched = <<>>
    /\ sourceDocs = [s \in SourceIds |-> SourceDoc(s)]
    /\ store = Tagged(PromotionThreshold, "en", "technology")
    /\ lastScraped = [s \in SourceIds |-> 0]
    /\ run = IdleRun
    /\ runNo = 0
    /\ obs = [faults |-> MaxFaults - 1, log |-> {}, storeAtStart |-> {}, created |-> 0,
              dupUrlCreate |-> FALSE]
    /\ abandoned = {}
    /\ pipe = <<>>
    /\ scrape = <<>>
    /\ cls = <<>>
    /\ categories \in PipelineCategorySets
    /\ script = [IdleScript EXCEPT !.faults = MaxScriptFaults - 1]
    /\ RotationIdle
    /\ lastScrapeStatus = <<>>
    /\ EditIdle

\* the script has run and is not running
ScriptDone == script.pc = "done" /\ script.runs = MaxScriptRuns

NextPipeline ==
    \/ NextScript
    \/ ScriptDone /\ StartRun
    \/ ScriptDone /\ FindSources
    \/ ScriptDone /\ \E s \in SourceIds : SettleSource(s)
    \/ ScriptDone /\ BatchSettled
    \/ ScriptDone /\ CheckUrl
    \/ ScriptDone /\ SlugProbe
    \/ ScriptDone /\ CreateArticle
    \/ ScriptDone /\ UpdateSource
    \/ ScriptDone /\ \E a \in abandoned : AbandonedSettles(a)

SpecPipeline == InitPipeline /\ [][NextPipeline]_vars

(* C30: a step of a run leaves the set of sources and every field of a     *)
(* source other than lastScraped as they are, and removes or changes no    *)
(* persisted category: the set of categories only grows.                   *)
C30_SourcesAndCategoriesKept ==
    [][/\ DOMAIN sourceDocs' = DOMAIN sourceDocs
       /\ \A s \in DOMAIN sourceDocs :
             /\ DOMAIN sourceDocs'[s] = DOMAIN sourceDocs[s]
             /\ \A field \in DOMAIN sourceDocs[s] \ {"lastScraped"} :
                   sourceDocs'[s][field] = sourceDocs[s][field]
       /\ categories \subseteq categories']_vars

C30_Witness ==
    /\ run.pc = "done"
    /\ runNo = MaxRuns
    /\ \E s \in SourceIds : sourceDocs[s].lastScraped > 0
    /\ \A s \in SourceIds : [sourceDocs[s] EXCEPT !.lastScraped = 0] = SourceDoc(s)
    /\ {FallbackCategory, AdminCategory("sports", "te")} \subseteq categories
    /\ \E c \in categories : c.isDynamic /\ c.language = "en"

----------------------------------------------------------------------------
(* Keywords that occur verbatim                                            *)

\* the match as it is described: the keyword occurs in the text, or its
\* truncated prefix of at least 3 code units does
VerbatimOrStem(t, k) ==
    \/ includes(t, k)
    \/ /\ Len(k) >= 3
       /\ includes(t, SubSeq(k, 1, Max(3, (Len(k) * 7) \div 10)))

\* the sum of the weights of the eligible keywords lo..hi that occur verbatim
\* or by their stem
RECURSIVE DescribedRange(_, _, _, _, _)
DescribedRange(keys, lang, text, lo, hi) ==
    IF lo > hi THEN 0
    ELSE IF lo = hi
         THEN IF IsLangWord(lang, keys[lo]) /\ VerbatimOrStem(text, keys[lo])
              THEN Weight(keys[lo]) ELSE 0
         ELSE LET mid == (lo + hi) \div 2
              IN DescribedRange(keys, lang, text, lo, mid)
                    + DescribedRange(keys, lang, text, mid + 1, hi)

(* C31 (as claimed): every eligible keyword that occurs verbatim in the    *)
(* normalized text adds its weight to the score of its category whatever   *)
(* its length, the minimum of 3 code units applying to the stem match only:*)
(* the score of each category evaluated is the sum of the weights of its   *)
(* eligible keywords that occur verbatim or by their stem.                 *)
C31_VerbatimKeywordScores ==
    (cls.pc \in {"scoring", "returned"}) =>
        \A n \in 1..cls.n :
            ScoreOf(n) = DescribedRange(dict[n][2], cls.lang, cls.text, 1, Len(dict[n][2]))

----------------------------------------------------------------------------
(* The counters of one perSource entry                                     *)

(* C32 (as claimed): in every perSource entry of the stats of a run,       *)
(* inserted <= scrapedOk <= itemsSeen, for feed sources and for sources of *)
(* type api alike.                                                         *)
C32_InsertedScrapedSeen ==
    \A n \in 1..Len(run.perSource) :
        /\ run.perSource[n].inserted <= run.perSource[n].scrapedOk
        /\ run.perSource[n].scrapedOk <= run.perSource[n].itemsSeen

----------------------------------------------------------------------------
(* Overlapping runs.  triggerScrape does not await scrapeAllSources, so a  *)
(* second request can start a run while the first is in progress.  Each    *)
(* request has its own activation record of scrapeAllSources; the store,   *)
(* the Source collection and lastScrapeStatus are shared.  An action runs  *)
(* the code of one call from one await to the next.                        *)

\* number of triggerScrape requests
NumRequests == 2

Requests == 1..NumRequests

\* the sources that are active while the requests are made: their feeds
\* serve two items with the same content and an item with the same slug
OverlapSources == {1, 3}

\* Source.find({ active: true }): the ids, in order
RECURSIVE ActiveIds(_, _)
ActiveIds(docs, ids) ==
    IF ids = {} THEN <<>>
    ELSE LET first == CHOOSE s \in ids : \A t \in ids : s <= t
         IN <<first>> \o ActiveIds(docs, ids \ {first})

\* a promise of scrapeAllSources has settled and its callback is due: the
\* callback runs before any other code does
ReactionDue == \E m \in Requests : triggered[m].pc = "done"

\* the request that wrote startedAt and the one that wrote finishedAt
Started(o, n) == [o EXCEPT !.startedBy = n, !.finishedBy = 0]

Finished(o, n) == [o EXCEPT !.finishedBy = n]

overlapUnchanged == <<fetchVars, run, runNo, pipe, scrape, classVars, rotVars, requests, cache>>

\* triggerScrape, after the active sources are counted (0 when the listing
\* fails): the status is replaced, scrapeAllSources is called and runs up
\* to `await Source.find`, its promise is left to the callbacks
TriggerOverlapped(n) ==
    /\ ~ReactionDue
    /\ triggered[n].pc = "idle"
    /\ \E activeCount \in {Len(ActiveIds(sourceDocs, DOMAIN sourceDocs)), 0} :
          lastScrapeStatus' = [startedAt |-> now, activeSources |-> activeCount]
    /\ triggered' = [triggered EXCEPT ![n] = [IdleRun EXCEPT !.pc = "find"]]
    /\ obs' = Started(obs, n)
    /\ UNCHANGED <<now, store, lastScraped, sourceDocs, abandoned, overlapUnchanged>>

\* Source.find settles
OverlapFindSources(n) ==
    /\ ~ReactionDue
    /\ triggered[n].pc = "find"
    /\ \E ok \in BOOLEAN :
          IF ok
          THEN /\ triggered' =
                     [triggered EXCEPT ![n] =
                         BeginBatch([@ EXCEPT
                             !.sources = ActiveIds(sourceDocs,
                                                   {s \in DOMAIN sourceDocs : sourceDocs[s].active}),
                             !.i = 0])]
               /\ obs' = obs
          ELSE /\ CanFail(1)
               /\ triggered' = [triggered EXCEPT ![n] = OuterCatch(@, "find failed")]
               /\ obs' = Logged(obs, {Fault("find", 0)}, 1)
    /\ UNCHANGED <<now, store, lastScraped, sourceDocs, abandoned, lastScrapeStatus,
                   overlapUnchanged>>

\* the task of source s of the batch settles
OverlapSettleSource(n, s) ==
    /\ ~ReactionDue
    /\ triggered[n].pc = "scraping"
    /\ s \in DOMAIN triggered[n].task
    /\ triggered[n].task[s].status = "running"
    /\ \E plan \in Plans(s, MaxFaults - obs.faults) :
          /\ triggered' = [triggered EXCEPT ![n].task[s] =
                              [status |-> "fulfilled", value |-> scrapeSource(s, store, plan)]]
          /\ obs' = Logged(obs, PlanFaultSet(s, plan), Cardinality(plan))
          /\ abandoned' = abandoned \cup TimedOut(s, plan)
    /\ UNCHANGED <<now, store, lastScraped, sourceDocs, lastScrapeStatus, overlapUnchanged>>

\* Promise.allSettled resolves
OverlapBatchSettled(n) ==
    /\ ~ReactionDue
    /\ triggered[n].pc = "scraping"
    /\ \A s \in DOMAIN triggered[n].task : triggered[n].task[s].status # "running"
    /\ triggered' = [triggered EXCEPT ![n] = BeginResult(@, 1)]
    /\ UNCHANGED <<now, store, lastScraped, sourceDocs, obs, abandoned, lastScrapeStatus,
                   overlapUnchanged>>

\* the article the loop of call r is at
ArticleOf(r) == CurrentResult(r).value.articles[r.j]

\* Article.findOne({ canonicalUrl }) settles
OverlapCheckUrl(n) ==
    /\ ~ReactionDue
    /\ triggered[n].pc = "checkUrl"
    /\ \E ok \in BOOLEAN :
          IF ok
          THEN /\ obs' = obs
               /\ triggered' =
                     [triggered EXCEPT ![n] =
                         IF existingByUrl(store, ArticleOf(@).sourceUrl)
                         THEN BeginArticle(@, @.j + 1)
                         ELSE [@ EXCEPT !.pc = "slug",
                                        !.baseSlug = slugify(ArticleOf(triggered[n]).title),
                                        !.slug = slugify(ArticleOf(triggered[n]).title),
                                        !.slugSuffix = 1]]
          ELSE /\ CanFail(1)
               /\ obs' = Logged(obs, {Fault("store", CurrentSource(triggered[n]))}, 1)
               /\ triggered' = [triggered EXCEPT ![n] = BeginArticle(@, @.j + 1)]
    /\ UNCHANGED <<now, store, lastScraped, sourceDocs, abandoned, lastScrapeStatus,
                   overlapUnchanged>>

\* Article.findOne({ slug }) settles: one turn of the slug collision loop
OverlapSlugProbe(n) ==
    /\ ~ReactionDue
    /\ triggered[n].pc = "slug"
    /\ \E ok \in BOOLEAN :
          IF ok
          THEN /\ obs' = obs
               /\ IF slugCollision(store, triggered[n].slug)
                  THEN \E t \in now..(now + MaxClockSkew) :
                          /\ now' = t
                          /\ triggered' =
                                [triggered EXCEPT ![n] =
                                    [@ EXCEPT !.slug = SlugCandidate(triggered[n].baseSlug, t,
                                                                   triggered[n].slugSuffix),
                                              !.slugSuffix = @ + 1]]
                  ELSE /\ triggered' = [triggered EXCEPT ![n].pc = "create"]
                       /\ now' = now
          ELSE /\ CanFail(1)
               /\ obs' = Logged(obs, {Fault("store", CurrentSource(triggered[n]))}, 1)
               /\ triggered' = [triggered EXCEPT ![n] = BeginArticle(@, @.j + 1)]
               /\ now' = now
    /\ UNCHANGED <<store, lastScraped, sourceDocs, abandoned, lastScrapeStatus,
                   overlapUnchanged>>

\* the document passed to Article.create by call r
NewArticleOf(r) ==
    [ title |-> ArticleOf(r).title,
      slug |-> r.slug,
      canonicalUrl |-> ArticleOf(r).sourceUrl,
      hash |-> ArticleOf(r).hash,
      status |-> "scraped" ]

\* Article.create settles: inserted and counted, or refused or failed and
\* skipped by the catch
OverlapCreateArticle(n) ==
    /\ ~ReactionDue
    /\ triggered[n].pc = "create"
    /\ \E ok \in BOOLEAN :
          IF ok
          THEN IF DuplicateKey(store, NewArticleOf(triggered[n]))
               THEN /\ store' = store
                    /\ triggered' = [triggered EXCEPT ![n] = BeginArticle(@, @.j + 1)]
                    /\ obs' = [obs EXCEPT !.refused = @ + 1]
               ELSE /\ store' = store \cup {NewArticleOf(triggered[n])}
                    /\ triggered' =
                          [triggered EXCEPT ![n] =
                              BeginArticle([@ EXCEPT !.insertedCount = @ + 1], @.j + 1)]
                    /\ obs' = obs
          ELSE /\ CanFail(1)
               /\ store' = store
               /\ triggered' = [triggered EXCEPT ![n] = BeginArticle(@, @.j + 1)]
               /\ obs' = Logged(obs, {Fault("store", CurrentSource(triggered[n]))}, 1)
    /\ UNCHANGED <<now, lastScraped, sourceDocs, abandoned, lastScrapeStatus, overlapUnchanged>>

\* Source.findByIdAndUpdate(source._id, { lastScraped }) settles
OverlapUpdateSource(n) ==
    /\ ~ReactionDue
    /\ triggered[n].pc = "update"
    /\ \E ok \in BOOLEAN :
          IF ok
          THEN /\ lastScraped' = [lastScraped EXCEPT ![CurrentSource(triggered[n])] = @ + 1]
               /\ sourceDocs' = findByIdAndUpdate(sourceDocs, CurrentSource(triggered[n]),
                                                  [lastScraped |-> now])
               /\ triggered' =
                     [triggered EXCEPT ![n] =
                         BeginResult([@ EXCEPT !.perSource = Append(@, FulfilledEntry(triggered[n]))],
                                     @.k + 1)]
               /\ obs' = obs
          ELSE /\ CanFail(1)
               /\ lastScraped' = lastScraped
               /\ sourceDocs' = sourceDocs
               /\ triggered' = [triggered EXCEPT ![n] = OuterCatch(@, "update failed")]
               /\ obs' = Logged(obs, {Fault("update", CurrentSource(triggered[n]))}, 1)
    /\ UNCHANGED <<now, store, abandoned, lastScrapeStatus, overlapUnchanged>>

\* the promise of the call of request n has settled: its .then or .catch
\* callback runs and spreads the status as it is now
OverlapSettled(n) ==
    /\ triggered[n].pc = "done"
    /\ lastScrapeStatus' =
          Spread(lastScrapeStatus,
                 IF triggered[n].outcome.settled = "resolved"
                 THEN ThenFields(triggered[n].outcome.value, now)
                 ELSE CatchFields(triggered[n].outcome.value, now))
    /\ triggered' = [triggered EXCEPT ![n].pc = "reported"]
    /\ obs' = Finished(obs, n)
    /\ UNCHANGED <<now, store, lastScraped, sourceDocs, abandoned, overlapUnchanged>>

\* a pipeline that lost the race against its deadline runs to its end
OverlapAbandonedSettles(a) ==
    /\ a \in abandoned
    /\ abandoned' = abandoned \ {a}
    /\ UNCHANGED <<now, store, lastScraped, sourceDocs, obs, triggered, lastScrapeStatus,
                   fetchVars, run, runNo, pipe, scrape, classVars, rotVars, requests, cache>>

\* the state before the requests, with the sources that are active
OverlapAt(sources) ==
    /\ now = StartTime
    /\ lastRequestTime = 0
    /\ call = <<>>
    /\ dispatched = <<>>
    /\ store = {}
    /\ lastScraped = [s \in sources |-> 0]
    /\ sourceDocs = [s \in sources |-> SourceDoc(s)]
    /\ cls = <<>>
    /\ ScriptIdle
    /\ RotationIdle
    /\ lastScrapeStatus = <<>>
    /\ triggered = [n \in Requests |-> IdleRun]
    /\ requests = <<>>
    /\ cache = <<>>
    /\ run = <<>>
    /\ runNo = 0
    /\ obs = [faults |-> MaxFaults - 1, log |-> {}, startedBy |-> 0, finishedBy |-> 0,
              refused |-> 0]
    /\ abandoned = {}
    /\ pipe = <<>>
    /\ scrape = <<>>

InitOverlap == OverlapAt(OverlapSources)

\* a step of one of the calls in progress
OverlapProgress ==
    \/ \E n \in Requests : OverlapFindSources(n)
    \/ \E n \in Requests : \E s \in DOMAIN sourceDocs : OverlapSettleSource(n, s)
    \/ \E n \in Requests : OverlapBatchSettled(n)
    \/ \E n \in Requests : OverlapCheckUrl(n)
    \/ \E n \in Requests : OverlapSlugProbe(n)
    \/ \E n \in Requests : OverlapCreateArticle(n)
    \/ \E n \in Requests : OverlapUpdateSource(n)
    \/ \E n \in Requests : OverlapSettled(n)
    \/ \E a \in abandoned : OverlapAbandonedSettles(a)

NextOverlap ==
    \/ \E n \in Requests : TriggerOverlapped(n)
    \/ OverlapProgress

SpecOverlap == InitOverlap /\ [][NextOverlap]_vars

\* the requests are made while one source of one feed is active, and every
\* network and store call in progress eventually returns or fails
SingleFeedSources == {3}

InitOverlapFair == OverlapAt(SingleFeedSources)

SpecOverlapFair == InitOverlapFair /\ [][NextOverlap]_vars /\ WF_vars(OverlapProgress)

----------------------------------------------------------------------------
(* Claims about overlapping runs                                           *)

(* C33 (as claimed): when two runs overlap, the status never mixes them:   *)
(* whenever the status has a finishedAt, it was written by the run that    *)
(* wrote its startedAt and activeSources.                                  *)
C33_StatusOfOneRun ==
    "finishedAt" \in DOMAIN lastScrapeStatus => obs.finishedBy = obs.startedBy

\* the status is complete: a finishedAt with an inserted count or an error
StatusComplete ==
    /\ "finishedAt" \in DOMAIN lastScrapeStatus
    /\ \/ "articlesInserted" \in DOMAIN lastScrapeStatus
       \/ "error" \in DOMAIN lastScrapeStatus

(* C34 (as claimed): once triggerScrape has set startedAt, the status      *)
(* eventually has a finishedAt together with an inserted count or an       *)
(* error, provided every network and store call of the run eventually      *)
(* returns or fails.                                                       *)
C34_StatusEventuallyComplete ==
    ("startedAt" \in DOMAIN lastScrapeStatus) ~> StatusComplete

----------------------------------------------------------------------------
(* The slug collision loop                                                 *)

\* the candidates the loop of the run can have proposed before the one it
\* holds: the slug of the title and, for every earlier turn, its suffix
\* joined to any time the clock has shown
EarlierCandidates ==
    IF run.slugSuffix = 1 THEN {}
    ELSE {run.baseSlug}
         \cup {SlugCandidate(run.baseSlug, t, k) :
                  t \in StartTime..now, k \in 1..(run.slugSuffix - 2)}

(* C35: the slug collision loop terminates: the candidate of each turn     *)
(* differs from every candidate proposed before it in the loop, so the     *)
(* turns that met a collision are at most as many as the documents of the  *)
(* store and the next look-up is made after finitely many.                 *)
C35_SlugLoopTerminates ==
    (run.pc \in {"slug", "create"}) =>
        /\ run.slug \notin EarlierCandidates
        /\ run.slugSuffix - 1 <= Cardinality(store)

\* a loop has ended after two collisions, with a slug that is free
C35_Witness ==
    /\ run.pc = "create"
    /\ run.slugSuffix = 3
    /\ ~slugCollision(store, run.slug)
    /\ slugCollision(store, run.baseSlug)
    /\ \E t \in StartTime..now : slugCollision(store, SlugCandidate(run.baseSlug, t, 1))

----------------------------------------------------------------------------
(* A promotion that the unique key refuses                                 *)

\* the detected key is persisted as a category of another language
KeyOfAnotherLanguage ==
    \E c \in categories :
        /\ c.key = script.detectedCategory
        /\ c.language \notin {LangOf(CurrentScriptSource), NoLanguage}

(* C37 (as claimed): when the detected key is persisted as a category of   *)
(* another language and the articles of the language of the item tagged    *)
(* with the key have reached the threshold, so that the promotion is       *)
(* attempted, the item goes on to be saved: a failed promotion never drops *)
(* the item.                                                               *)
C37_FailedPromotionKeepsItem ==
    [][(script.pc = "create" /\ KeyOfAnotherLanguage) => script'.pc = "save"]_vars

----------------------------------------------------------------------------
(* The article service and the enrichment (src/src/services/               *)
(* article.service.ts; ScrapingService.enrichArticles).  The reads         *)
(* getArticleBySlug and getArticleById, publishArticle and enrichArticles  *)
(* are asynchronous and share the Article collection and the Redis cache;  *)
(* an action runs the code of one call from one await to the next.  The    *)
(* documents carry the fields these calls read or write.                   *)

\* number of reads made
NumReaders == 2

Readers == 1..NumReaders

\* params?.minWords ?? 80
minWords == 80

\* the number of words of the page enrichArticles fetches
PageWords == minWords + 40

\* Math.max(1, Math.ceil(wc / 200))
readingTime(wc) == Max(1, (wc + 199) \div 200)

\* the documents persisted before the calls: a scraped article with a short
\* content and a processed article with a full content
EditorialArticles ==
    { [ id |-> "a1", slug |-> "big-news", status |-> "scraped", content |-> "short",
        wordCount |-> 10, readingTime |-> 1, viewCount |-> 0, publishedAt |-> 0,
        updatedAt |-> 0 ],
      [ id |-> "a2", slug |-> "other", status |-> "processed", content |-> "full",
        wordCount |-> 200, readingTime |-> 1, viewCount |-> 0, publishedAt |-> 0,
        updatedAt |-> 0 ] }

ArticleIds == {a.id : a \in EditorialArticles}

\* Article.findByIdAndUpdate(id, update) / Article.updateOne({ _id }, { $set }):
\* the fields of the update are set in the document with this id
updateOne(st, id, update) ==
    {IF a.id = id THEN Spread(a, update) ELSE a : a \in st}

\* { $inc: { viewCount: 1 } }
incViewCount(st, id) ==
    {IF a.id = id THEN [a EXCEPT !.viewCount = @ + 1] ELSE a : a \in st}

\* JSON.stringify(article) and JSON.parse(cachedArticle)
stringify(doc) == <<"json", doc>>

parse(text) == text[2]

\* redisClient.setEx(key, 3600, value)
setEx(c, key, value) ==
    [k \in DOMAIN c \cup {key} |-> IF k = key THEN value ELSE c[k]]

\* redisClient.del(keys)
del(c, keys) == [k \in DOMAIN c \ keys |-> c[k]]

\* redisClient.keys('article:*'): every key of the cache is one of these
articleKeys(c) == DOMAIN c

\* `article:${slug}` and `article:id:${id}`
cacheKey(op, arg) == IF op = "slug" THEN "article:" \o arg ELSE "article:id:" \o arg

\* the filter of Article.find in enrichArticles
IsCandidate(a) ==
    /\ a.status \in {"scraped", "processed"}
    /\ a.wordCount < minWords \/ a.content = ""

\* the update enrichArticles builds from the page fetched for a document
enrichUpdate(doc, t) ==
    [ content |-> "page", wordCount |-> PageWords, readingTime |-> readingTime(PageWords),
      status |-> "processed", updatedAt |-> t ]

IdleEnrich == [pc |-> "idle", candidates |-> {}, task |-> <<>>, improved |-> 0, failed |-> 0]

IdlePublish == [pc |-> "idle", id |-> "", keys |-> {}, article |-> Null]

IdleRead ==
    [ pc |-> "idle", op |-> "", arg |-> "", article |-> Null, result |-> Null,
      fromCache |-> FALSE, afterPublish |-> FALSE ]

editorialUnchanged ==
    <<now, fetchVars, lastScraped, sourceDocs, run, runNo, obs, abandoned, pipe, scrape,
      classVars, rotVars, lastScrapeStatus, triggered>>

\* enrichArticles is called: up to `await Article.find`
CallEnrichArticles ==
    /\ requests.enrich.pc = "idle"
    /\ requests' = [requests EXCEPT !.enrich.pc = "find"]
    /\ UNCHANGED <<store, cache, editorialUnchanged>>

\* Article.find settles: the candidates are the documents as they are now;
\* the tasks of the batch start and each awaits the page of its document
\* (the candidates are fewer than one batch of `concurrency` documents)
EnrichFindSettles ==
    /\ requests.enrich.pc = "find"
    /\ LET candidates == {a \in store : IsCandidate(a)}
       IN requests' =
             [requests EXCEPT !.enrich =
                 [@ EXCEPT !.pc = "batch",
                           !.candidates = candidates,
                           !.task = [id \in {a.id : a \in candidates} |-> "fetch"]]]
    /\ UNCHANGED <<store, cache, editorialUnchanged>>

\* fetchArticleContent settles for the document: the update is awaited, or
\* the page is empty (false) or the request failed (rejected)
EnrichFetchSettles(id) ==
    /\ requests.enrich.pc = "batch"
    /\ id \in DOMAIN requests.enrich.task
    /\ requests.enrich.task[id] = "fetch"
    /\ \E outcome \in {"update", "false", "rejected"} :
          requests' = [requests EXCEPT !.enrich.task[id] = outcome]
    /\ UNCHANGED <<store, cache, editorialUnchanged>>

\* Article.updateOne({ _id }, { $set: update }) settles
EnrichUpdateSettles(id) ==
    /\ requests.enrich.pc = "batch"
    /\ id \in DOMAIN requests.enrich.task
    /\ requests.enrich.task[id] = "update"
    /\ \E doc \in {a \in requests.enrich.candidates : a.id = id} :
          /\ store' = updateOne(store, id, enrichUpdate(doc, now))
          /\ requests' = [requests EXCEPT !.enrich.task[id] =
                             IF PageWords > doc.wordCount + 30 THEN "true" ELSE "false"]
    /\ UNCHANGED <<cache, editorialUnchanged>>

\* Promise.allSettled resolves: the results are counted and the call returns
EnrichBatchSettled ==
    /\ requests.enrich.pc = "batch"
    /\ \A id \in DOMAIN requests.enrich.task :
          requests.enrich.task[id] \in {"true", "false", "rejected"}
    /\ requests' =
          [requests EXCEPT !.enrich =
              [@ EXCEPT !.pc = "done",
                        !.improved = Cardinality({id \in DOMAIN requests.enrich.task :
                                                     requests.enrich.task[id] = "true"}),
                        !.failed = Cardinality({id \in DOMAIN requests.enrich.task :
                                                   requests.enrich.task[id] = "rejected"})]]
    /\ UNCHANGED <<store, cache, editorialUnchanged>>

\* publishArticle(id) is called: up to `await Article.findByIdAndUpdate`
CallPublishArticle(id) ==
    /\ requests.publish.pc = "idle"
    /\ requests' = [requests EXCEPT !.publish = [IdlePublish EXCEPT !.pc = "update", !.id = id]]
    /\ UNCHANGED <<store, cache, editorialUnchanged>>

\* Article.findByIdAndUpdate settles; clearArticleCaches is entered, up to
\* `await redisClient.keys('trending:*')`
PublishUpdateSettles ==
    /\ requests.publish.pc = "update"
    /\ store' = updateOne(store, requests.publish.id, [status |-> "published", publishedAt |-> now])
    /\ requests' = [requests EXCEPT !.publish.pc = "trendingKeys",
                                    !.publish.article =
                                        CHOOSE a \in store' : a.id = requests.publish.id]
    /\ UNCHANGED <<cache, editorialUnchanged>>

\* keys('trending:*') settles: no such key is cached; up to
\* `await redisClient.keys('article:*')`
TrendingKeysSettle ==
    /\ requests.publish.pc = "trendingKeys"
    /\ requests' = [requests EXCEPT !.publish.pc = "articleKeys"]
    /\ UNCHANGED <<store, cache, editorialUnchanged>>

\* keys('article:*') settles: the keys cached now are deleted next, or
\* there is none and publishArticle returns
ArticleKeysSettle ==
    /\ requests.publish.pc = "articleKeys"
    /\ requests' = [requests EXCEPT !.publish.keys = articleKeys(cache),
                                    !.publish.pc = IF articleKeys(cache) # {} THEN "del"
                                                   ELSE "done"]
    /\ UNCHANGED <<store, cache, editorialUnchanged>>

\* del(articleKeys) settles and publishArticle returns the article
DelSettles ==
    /\ requests.publish.pc = "del"
    /\ cache' = del(cache, requests.publish.keys)
    /\ requests' = [requests EXCEPT !.publish.pc = "done"]
    /\ UNCHANGED <<store, editorialUnchanged>>

\* getArticleBySlug(slug) or getArticleById(id) is called: up to
\* `await redisClient.get(cacheKey)`
CallGetArticle(r, op, arg) ==
    /\ requests.reads[r].pc = "idle"
    /\ requests' = [requests EXCEPT !.reads[r] =
                       [IdleRead EXCEPT !.pc = "cacheGet", !.op = op, !.arg = arg,
                                        !.afterPublish = (requests.publish.pc = "done")]]
    /\ UNCHANGED <<store, cache, editorialUnchanged>>

\* redisClient.get settles: the cached copy is parsed and returned, or the
\* store is queried
CacheGetSettles(r) ==
    /\ requests.reads[r].pc = "cacheGet"
    /\ LET key == cacheKey(requests.reads[r].op, requests.reads[r].arg)
       IN requests' =
             [requests EXCEPT !.reads[r] =
                 IF key \in DOMAIN cache
                 THEN [@ EXCEPT !.pc = "done", !.result = parse(cache[key]), !.fromCache = TRUE]
                 ELSE [@ EXCEPT !.pc = "find"]]
    /\ UNCHANGED <<store, cache, editorialUnchanged>>

\* what Article.findOne({ slug, status: { $in } }) or Article.findById finds
Found(st, op, arg) ==
    IF op = "slug"
    THEN {a \in st : a.slug = arg /\ a.status \in {"scraped", "processed", "published"}}
    ELSE {a \in st : a.id = arg}

\* the query settles: the view count is incremented next, or the article
\* is not found and the call throws
ReadFindSettles(r) ==
    /\ requests.reads[r].pc = "find"
    /\ LET found == Found(store, requests.reads[r].op, requests.reads[r].arg)
       IN requests' =
             [requests EXCEPT !.reads[r] =
                 IF found = {} THEN [@ EXCEPT !.pc = "failed"]
                 ELSE [@ EXCEPT !.pc = "inc", !.article = CHOOSE a \in found : TRUE]]
    /\ UNCHANGED <<store, cache, editorialUnchanged>>

\* Article.findByIdAndUpdate(article._id, { $inc: { viewCount: 1 } }) settles
ViewCountSettles(r) ==
    /\ requests.reads[r].pc = "inc"
    /\ store' = incViewCount(store, requests.reads[r].article.id)
    /\ requests' = [requests EXCEPT !.reads[r].pc = "setEx"]
    /\ UNCHANGED <<cache, editorialUnchanged>>

\* redisClient.setEx settles: the article as it was found is cached for an
\* hour and returned
SetExSettles(r) ==
    /\ requests.reads[r].pc = "setEx"
    /\ cache' = setEx(cache, cacheKey(requests.reads[r].op, requests.reads[r].arg),
                      stringify(requests.reads[r].article))
    /\ requests' = [requests EXCEPT !.reads[r].pc = "done",
                                    !.reads[r].result = requests.reads[r].article]
    /\ UNCHANGED <<store, editorialUnchanged>>

InitEditorial ==
    /\ now = StartTime
    /\ lastRequestTime = 0
    /\ call = <<>>
    /\ dispatched = <<>>
    /\ store = EditorialArticles
    /\ sourceDocs = <<>>
    /\ lastScraped = <<>>
    /\ run = <<>>
    /\ runNo = 0
    /\ obs = <<>>
    /\ abandoned = {}
    /\ pipe = <<>>
    /\ scrape = <<>>
    /\ cls = <<>>
    /\ ScriptIdle
    /\ RotationIdle
    /\ lastScrapeStatus = <<>>
    /\ triggered = <<>>
    /\ requests = [enrich |-> IdleEnrich, publish |-> IdlePublish,
                   reads |-> [r \in Readers |-> IdleRead]]
    /\ cache = <<>>

NextEditorial ==
    \/ CallEnrichArticles
    \/ EnrichFindSettles
    \/ \E id \in ArticleIds : EnrichFetchSettles(id)
    \/ \E id \in ArticleIds : EnrichUpdateSettles(id)
    \/ EnrichBatchSettled
    \/ \E id \in ArticleIds : CallPublishArticle(id)
    \/ PublishUpdateSettles
    \/ TrendingKeysSettle
    \/ ArticleKeysSettle
    \/ DelSettles
    \/ \E r \in Readers : \E a \in EditorialArticles : CallGetArticle(r, "slug", a.slug)
    \/ \E r \in Readers : \E a \in EditorialArticles : CallGetArticle(r, "id", a.id)
    \/ \E r \in Readers : CacheGetSettles(r)
    \/ \E r \in Readers : ReadFindSettles(r)
    \/ \E r \in Readers : ViewCountSettles(r)
    \/ \E r \in Readers : SetExSettles(r)

SpecEditorial == InitEditorial /\ [][NextEditorial]_vars

----------------------------------------------------------------------------
(* Claims about the article service                                        *)

(* C38 (as claimed): the status of an article never moves backwards: once  *)
(* it is published, no later step sets it to processed or scraped, also    *)
(* when enrichArticles selected the article before the publish and writes  *)
(* its update after it.                                                    *)
C38_PublishedStays ==
    [][\A a \in store : a.status = "published" =>
          \A b \in store' : b.id = a.id => b.status = "published"]_vars

(* C39 (as claimed): a read called after publishArticle(id) has completed  *)
(* never returns a cached copy of that article taken before the publish.   *)
C39_NoStaleCopyAfterPublish ==
    \A r \in Readers :
        (/\ requests.reads[r].pc = "done"
         /\ requests.reads[r].afterPublish
         /\ requests.reads[r].fromCache
         /\ requests.reads[r].result.id = requests.publish.id)
            => requests.reads[r].result.status = "published"

============================================================================
